---- MODULE Spec2Model ----
(***************************************************************************)
(* Rule engine of the chess program: Board, Square, Piece kinds, Move,     *)
(* GameRule and GameState (src/core).                                      *)
(*                                                                         *)
(* Conventions of this development.                                        *)
(*  - Squares are numbered row * 8 + col; row 0 is Black's home row and    *)
(*    row 7 White's (White pawns move towards row 0).                      *)
(*  - The several drafts under src/core name the same things differently   *)
(*    (move.piece / move.moving_piece, Move(start, end, ...) of piece.py   *)
(*    and Move of move.py, isinstance(x, 'King')).  A name is read as the  *)
(*    thing it denotes.                                                    *)
(*  - A method that src only declares (a "pass" body) or only calls is     *)
(*    modelled from the implementation src holds of the same operation     *)
(*    (Move.execute for Board's _handle_* methods) and otherwise from the  *)
(*    specification; MODEL_MAP.json marks the latter.                      *)
(*  - Everything src implements is kept as written: the order of the       *)
(*    updates, the conditions, the values returned (Board.make_move has    *)
(*    no return statement, so it evaluates to None).                       *)
(*  - An operation that raises is a result with ok = FALSE and the board   *)
(*    as it was when the exception left it.                                *)
(***************************************************************************)
EXTENDS Integers, Sequences, FiniteSets, TLC

VARIABLES board, rule, game, ret, call, search

vars == <<board, rule, game, ret, call, search>>

(***************************************************************************)
(* Bounds of the model.                                                    *)
(***************************************************************************)
MaxPieces == 6
MaxPlies == 2
MaxQueries == 1

(***************************************************************************)
(* Squares, colours, kinds.                                                *)
(***************************************************************************)
Sq == 0..63
NoSq == -1
NoPiece == 0
Ids == 1..MaxPieces

White == "white"
Black == "black"
Colors == {White, Black}

Pawn == "pawn"
Knight == "knight"
Bishop == "bishop"
Rook == "rook"
Queen == "queen"
King == "king"
NoKind == "none"

Row(s) == s \div 8
Col(s) == s % 8
S(r, c) == r * 8 + c
Abs(x) == IF x < 0 THEN -x ELSE x

\* Square._is_valid_position
IsValidPosition(r, c) == 0 <= r /\ r < 8 /\ 0 <= c /\ c < 8

\* PieceColor.opposite
Opposite(c) == IF c = White THEN Black ELSE White

NoRec == [kind |-> NoKind, color |-> White, moved |-> FALSE, pos |-> NoSq]

(***************************************************************************)
(* Board: the grid (Square._piece), the pieces (Piece._position,           *)
(* _has_moved), the registry Board._pieces, Board._kings,                  *)
(* Board._move_history and Board._position_history.                        *)
(***************************************************************************)
PieceAt(B, s) == B.sq[s]
IsEmpty(B, s) == B.sq[s] = NoPiece
IsOccupied(B, s) == B.sq[s] # NoPiece
KindOf(B, p) == B.pc[p].kind
ColorOf(B, p) == B.pc[p].color
HasFriendlyPiece(B, s, c) == IsOccupied(B, s) /\ ColorOf(B, B.sq[s]) = c
HasEnemyPiece(B, s, c) == IsOccupied(B, s) /\ ColorOf(B, B.sq[s]) # c

\* Board.get_pieces(color): the registry
GetPieces(B, c) == {p \in B.reg : B.pc[p].color = c}

\* Board.get_king(color)
GetKing(B, c) == B.kings[c]

\* Board.__init__ followed by Board.place_piece for every entry of pl,
\* a sequence of <<kind, color, square, has_moved>>.
Setup(pl) ==
  [sq |-> [s \in Sq |-> IF \E i \in 1..Len(pl) : pl[i][3] = s
                         THEN CHOOSE i \in 1..Len(pl) : pl[i][3] = s
                         ELSE NoPiece],
   pc |-> [i \in Ids |-> IF i <= Len(pl)
                          THEN [kind |-> pl[i][1], color |-> pl[i][2],
                                moved |-> pl[i][4], pos |-> pl[i][3]]
                          ELSE NoRec],
   reg |-> 1..Len(pl),
   kings |-> [c \in Colors |->
                IF \E i \in 1..Len(pl) : pl[i][1] = King /\ pl[i][2] = c
                THEN CHOOSE i \in 1..Len(pl) : pl[i][1] = King /\ pl[i][2] = c
                ELSE NoPiece],
   mh |-> <<>>,
   ph |-> {}]

\* Square.remove_piece that leaves the piece its position
SquareRemovePieceKeepsPosition(B, s) ==
  IF B.sq[s] = NoPiece THEN B
  ELSE [B EXCEPT !.sq[s] = NoPiece]

\* Square.remove_piece
SquareRemovePiece(B, s) ==
  IF B.sq[s] = NoPiece THEN B
  ELSE [B EXCEPT !.sq[s] = NoPiece, !.pc[B.sq[s]].pos = NoSq]

\* Square.place_piece (piece given)
SquarePlacePiece(B, s, p) ==
  LET B1 == SquareRemovePiece(B, s)
  IN [B1 EXCEPT !.sq[s] = p, !.pc[p].pos = s]

\* Board.remove_piece, reached with the piece to take off the board: the
\* result carries ok = FALSE where the list removal raises.
BoardRemovePiece(B, p) ==
  IF B.pc[p].pos = NoSq
  THEN [b |-> B, ok |-> FALSE]
  ELSE LET B1 == SquareRemovePiece(B, B.pc[p].pos)
       IN IF p \notin B.reg
          THEN [b |-> B1, ok |-> FALSE]
          ELSE [b |-> [B1 EXCEPT !.reg = B1.reg \ {p},
                                 !.kings = [c \in Colors |->
                                             IF B1.kings[c] = p THEN NoPiece
                                             ELSE B1.kings[c]]],
                ok |-> TRUE]

(***************************************************************************)
(* Move (src/core/move.py).  piece = 0 stands for a request that names an  *)
(* empty start square.                                                     *)
(***************************************************************************)
\* Move.__init__ and Move._verify_move_type; cf, cs, ep, pr are the flags of
\* the MoveType handed in, kd its promotion_piece_type.
MkMove(B, from, to, p, cf, cs, ep, pr, kd) ==
  LET cap == B.sq[to]
      k == IF p = NoPiece THEN NoKind ELSE B.pc[p].kind
      dc == Abs(Col(to) - Col(from))
  IN [from |-> from, to |-> to, piece |-> p, cap |-> cap,
      is_capture |-> cf \/ cap # NoPiece,
      is_castle |-> cs \/ (k = King /\ dc = 2),
      is_en_passant |-> ep \/ (k = Pawn /\ dc = 1 /\ cap = NoPiece),
      is_promotion |-> pr \/ (k = Pawn /\ Row(to) \in {0, 7}),
      promotion |-> kd,
      first |-> IF p = NoPiece THEN FALSE ELSE ~B.pc[p].moved]

\* Move(start_square, end_square, piece) as a caller builds it
Request(B, from, to) ==
  MkMove(B, from, to, B.sq[from], FALSE, FALSE, FALSE, FALSE, NoKind)

\* Move._execute_normal_move with the captured piece the move holds
ExecuteNormalMove(B, m, cap) ==
  LET r1 == IF cap # NoPiece THEN BoardRemovePiece(B, cap)
            ELSE [b |-> B, ok |-> TRUE]
  IN IF ~r1.ok THEN [b |-> r1.b, ok |-> FALSE]
     ELSE LET B2 == SquareRemovePiece(r1.b, m.from)
              B3 == SquarePlacePiece(B2, m.to, m.piece)
          IN [b |-> [B3 EXCEPT !.pc[m.piece].moved = TRUE], ok |-> TRUE]

\* Move._execute_castle
ExecuteCastle(B, m) ==
  LET is_kingside == Col(m.to) > Col(m.from)
      rook_start == S(Row(m.from), IF is_kingside THEN 7 ELSE 0)
      rook_end == S(Row(m.from), IF is_kingside THEN 5 ELSE 3)
      rook == B.sq[rook_start]
  IN IF B.pc[m.piece].kind # King \/ rook = NoPiece
     THEN [b |-> B, ok |-> FALSE]
     ELSE LET r1 == ExecuteNormalMove(B, m, m.cap)
          IN IF ~r1.ok THEN r1
             ELSE LET B2 == SquareRemovePiece(r1.b, rook_start)
                      B3 == SquarePlacePiece(B2, rook_end, rook)
                  IN [b |-> [B3 EXCEPT !.pc[rook].moved = TRUE], ok |-> TRUE]

\* The square of the pawn an en-passant capture takes
EnPassantVictimSquare(m) == S(Row(m.from), Col(m.to))

\* Move._execute_en_passant: the pawn found beside the start square becomes
\* the move's captured piece, which _execute_normal_move removes once more.
ExecuteEnPassant(B, m) ==
  LET cs == EnPassantVictimSquare(m)
      victim == B.sq[cs]
  IN IF victim = NoPiece THEN ExecuteNormalMove(B, m, m.cap)
     ELSE LET r1 == BoardRemovePiece(B, victim)
          IN IF ~r1.ok THEN [b |-> r1.b, ok |-> FALSE]
             ELSE ExecuteNormalMove(SquareRemovePiece(r1.b, cs), m, victim)

\* The next piece not yet made
HasFreshId(B) == \E i \in Ids : B.pc[i].kind = NoKind
FreshId(B) ==
  CHOOSE i \in Ids : /\ B.pc[i].kind = NoKind
                     /\ \A j \in 1..(i - 1) : B.pc[j].kind # NoKind

\* create_piece(piece_type, color, square): a piece of that kind and colour,
\* made for the square, not yet on it
CreatePiece(B, kind, color) ==
  [B EXCEPT !.pc[FreshId(B)] =
              [kind |-> kind, color |-> color, moved |-> FALSE, pos |-> NoSq]]

\* Move._execute_promotion: without a promotion kind it raises at once;
\* with one the pawn is moved, the new piece is placed on the end square
\* (which puts the pawn off it) and the pawn is taken off the board.
ExecutePromotion(B, m) ==
  IF m.promotion = NoKind THEN [b |-> B, ok |-> FALSE]
  ELSE CHOOSE r \in
         {IF ~r1.ok THEN [b |-> r1.b, ok |-> FALSE]
          ELSE LET B2 == CreatePiece(r1.b, m.promotion, B.pc[m.piece].color)
                   B3 == SquarePlacePiece(B2, m.to, FreshId(r1.b))
               IN BoardRemovePiece(B3, m.piece)
          : r1 \in {ExecuteNormalMove(B, m, m.cap)}} : TRUE

\* Move.execute
Execute(B, m) ==
  IF m.is_castle THEN ExecuteCastle(B, m)
  ELSE IF m.is_en_passant THEN ExecuteEnPassant(B, m)
  ELSE IF m.is_promotion THEN ExecutePromotion(B, m)
  ELSE ExecuteNormalMove(B, m, m.cap)

\* The captured piece a move holds once it has been executed
CapturedAfter(B, m) ==
  IF ~m.is_castle /\ m.is_en_passant /\ B.sq[EnPassantVictimSquare(m)] # NoPiece
  THEN B.sq[EnPassantVictimSquare(m)] ELSE m.cap

(***************************************************************************)
(* Piece movement (src/core/pieces).                                       *)
(***************************************************************************)
RookDirections == {<<-1, 0>>, <<1, 0>>, <<0, -1>>, <<0, 1>>}
BishopDirections == {<<-1, -1>>, <<-1, 1>>, <<1, -1>>, <<1, 1>>}
QueenDirections == RookDirections \cup BishopDirections
KnightMoves == {<<-2, -1>>, <<-2, 1>>, <<-1, -2>>, <<-1, 2>>,
                <<1, -2>>, <<1, 2>>, <<2, -1>>, <<2, 1>>}

\* Piece._create_move of the sliding pieces and the knight
CreateMove(B, p, to) ==
  MkMove(B, B.pc[p].pos, to, p, FALSE, FALSE, FALSE, FALSE, NoKind)

\* Piece.get_moves_in_direction, the end squares: walk from (r, c) until the
\* edge, a friendly piece (excluded) or an enemy piece (included).
RECURSIVE Walk(_, _, _, _, _)
Walk(B, color, r, c, d) ==
  IF ~IsValidPosition(r, c) THEN {}
  ELSE IF IsEmpty(B, S(r, c)) THEN {S(r, c)} \cup Walk(B, color, r + d[1], c + d[2], d)
  ELSE IF ColorOf(B, B.sq[S(r, c)]) = color THEN {}
  ELSE {S(r, c)}

EndsInDirection(B, p, d) ==
  Walk(B, B.pc[p].color, Row(B.pc[p].pos) + d[1], Col(B.pc[p].pos) + d[2], d)

\* Piece.get_moves_in_direction
GetMovesInDirection(B, p, d) ==
  {CreateMove(B, p, s) : s \in EndsInDirection(B, p, d)}

\* Rook.get_possible_moves, Bishop.get_possible_moves, Queen.get_possible_moves
SlidingEnds(B, p, dirs) == UNION {EndsInDirection(B, p, d) : d \in dirs}
SlidingMoves(B, p, dirs) == UNION {GetMovesInDirection(B, p, d) : d \in dirs}

\* Knight.get_possible_moves: the end squares, the moves
KnightEnds(B, p) ==
  LET r == Row(B.pc[p].pos)
      c == Col(B.pc[p].pos)
      ds == {d \in KnightMoves :
               /\ IsValidPosition(r + d[1], c + d[2])
               /\ ~HasFriendlyPiece(B, S(r + d[1], c + d[2]), B.pc[p].color)}
  IN {S(r + d[1], c + d[2]) : d \in ds}

KnightGetPossibleMoves(B, p) == {CreateMove(B, p, s) : s \in KnightEnds(B, p)}

\* Pawn.direction, Pawn.start_row, Pawn._promotion_row
Direction(c) == IF c = White THEN -1 ELSE 1
StartRow(c) == IF c = White THEN 6 ELSE 1
PromotionRow(c) == IF c = White THEN 0 ELSE 7

\* Pawn._create_move
PawnCreateMove(B, p, to, cf, pr, ep) ==
  MkMove(B, B.pc[p].pos, to, p, cf, FALSE, ep, pr, NoKind)

\* Pawn._get_forward_moves
PawnForwardMoves(B, p) ==
  LET me == B.pc[p]
      r == Row(me.pos)
      c == Col(me.pos)
      next_row == r + Direction(me.color)
  IN IF ~(0 <= next_row /\ next_row < 8) \/ IsOccupied(B, S(next_row, c))
     THEN {}
     ELSE {PawnCreateMove(B, p, S(next_row, c), FALSE,
                          next_row = PromotionRow(me.color), FALSE)}
          \cup
          (IF ~me.moved /\ r = StartRow(me.color)
              /\ IsEmpty(B, S(next_row + Direction(me.color), c))
           THEN {PawnCreateMove(B, p, S(next_row + Direction(me.color), c),
                                FALSE, FALSE, FALSE)}
           ELSE {})

\* Pawn._get_capture_moves
PawnCaptureMoves(B, p) ==
  LET me == B.pc[p]
      r == Row(me.pos)
      c == Col(me.pos)
      next_row == r + Direction(me.color)
      cols == {nc \in {c - 1, c + 1} :
                 /\ 0 <= next_row /\ next_row < 8
                 /\ 0 <= nc /\ nc < 8
                 /\ HasEnemyPiece(B, S(next_row, nc), me.color)}
  IN {PawnCreateMove(B, p, S(next_row, nc), TRUE,
                     next_row = PromotionRow(me.color), FALSE) : nc \in cols}

\* board.last_move: the last entry of Board._move_history
HasLastMove(B) == Len(B.mh) > 0
LastMove(B) == B.mh[Len(B.mh)]

\* Pawn._get_en_passant_moves
PawnEnPassantMoves(B, p) ==
  IF ~HasLastMove(B) THEN {}
  ELSE LET last_move == LastMove(B)
           me == B.pc[p]
       IN IF /\ B.pc[last_move.piece].kind = Pawn
             /\ Abs(Row(last_move.from) - Row(last_move.to)) = 2
             /\ Row(me.pos) = Row(last_move.to)
             /\ Abs(Col(me.pos) - Col(last_move.to)) = 1
          THEN {PawnCreateMove(B, p,
                   S(Row(me.pos) + Direction(me.color), Col(last_move.to)),
                   FALSE, FALSE, TRUE)}
          ELSE {}

\* Pawn.get_possible_moves
PawnGetPossibleMoves(B, p) ==
  IF B.pc[p].pos = NoSq THEN {}
  ELSE PawnForwardMoves(B, p) \cup PawnCaptureMoves(B, p)
       \cup PawnEnPassantMoves(B, p)

\* The end squares of Pawn.get_possible_moves
PawnEnds(B, p) == {mv.to : mv \in PawnGetPossibleMoves(B, p)}

\* The end squares of get_possible_moves of every kind but the king
NonKingEnds(B, p) ==
  LET k == B.pc[p].kind
  IN IF k = Pawn THEN PawnEnds(B, p)
     ELSE IF B.pc[p].pos = NoSq THEN {}
     ELSE IF k = Knight THEN KnightEnds(B, p)
     ELSE IF k = Bishop THEN SlidingEnds(B, p, BishopDirections)
     ELSE IF k = Rook THEN SlidingEnds(B, p, RookDirections)
     ELSE IF k = Queen THEN SlidingEnds(B, p, QueenDirections)
     ELSE {}

\* get_possible_moves of every kind but the king
NonKingMoves(B, p) ==
  LET k == B.pc[p].kind
  IN IF k = Pawn THEN PawnGetPossibleMoves(B, p)
     ELSE IF B.pc[p].pos = NoSq THEN {}
     ELSE IF k = Knight THEN KnightGetPossibleMoves(B, p)
     ELSE IF k = Bishop THEN SlidingMoves(B, p, BishopDirections)
     ELSE IF k = Rook THEN SlidingMoves(B, p, RookDirections)
     ELSE IF k = Queen THEN SlidingMoves(B, p, QueenDirections)
     ELSE {}

\* King._is_square_safe
IsSquareSafe(B, color, row, col) ==
  \A s \in Sq :
    (IsOccupied(B, s) /\ B.pc[B.sq[s]].color # color) =>
      IF B.pc[B.sq[s]].kind = King
      THEN ~(Abs(Row(s) - row) <= 1 /\ Abs(Col(s) - col) <= 1)
      ELSE S(row, col) \notin NonKingEnds(B, B.sq[s])

\* King._can_castle_kingside
CanCastleKingside(B, color, row) ==
  /\ IsEmpty(B, S(row, 5)) /\ IsEmpty(B, S(row, 6))
  /\ IsOccupied(B, S(row, 7))
  /\ B.pc[B.sq[S(row, 7)]].kind = Rook
  /\ ~B.pc[B.sq[S(row, 7)]].moved
  /\ IsSquareSafe(B, color, row, 4)
  /\ IsSquareSafe(B, color, row, 5)
  /\ IsSquareSafe(B, color, row, 6)

\* King._can_castle_queenside
CanCastleQueenside(B, color, row) ==
  /\ IsEmpty(B, S(row, 3)) /\ IsEmpty(B, S(row, 2)) /\ IsEmpty(B, S(row, 1))
  /\ IsOccupied(B, S(row, 0))
  /\ B.pc[B.sq[S(row, 0)]].kind = Rook
  /\ ~B.pc[B.sq[S(row, 0)]].moved
  /\ IsSquareSafe(B, color, row, 4)
  /\ IsSquareSafe(B, color, row, 3)
  /\ IsSquareSafe(B, color, row, 2)

\* Move(start=(row, 4), end=(row, col), is_castle=True) of King._get_castling_moves
CastlingMove(B, p, row, col) ==
  [from |-> S(row, 4), to |-> S(row, col), piece |-> p, cap |-> B.sq[S(row, col)],
   is_capture |-> FALSE, is_castle |-> TRUE, is_en_passant |-> FALSE,
   is_promotion |-> FALSE, promotion |-> NoKind, first |-> ~B.pc[p].moved]

\* King._get_castling_moves
GetCastlingMoves(B, p) ==
  LET color == B.pc[p].color
      row == IF color = White THEN 7 ELSE 0
  IN IF B.pc[p].moved THEN {}
     ELSE (IF CanCastleKingside(B, color, row)
           THEN {CastlingMove(B, p, row, 6)} ELSE {})
          \cup
          (IF CanCastleQueenside(B, color, row)
           THEN {CastlingMove(B, p, row, 2)} ELSE {})

\* King.get_legal_moves: the end squares of the steps
KingStepEnds(B, p) ==
  LET color == B.pc[p].color
      r == Row(B.pc[p].pos)
      c == Col(B.pc[p].pos)
      ds == {d \in QueenDirections :
               /\ IsValidPosition(r + d[1], c + d[2])
               /\ ~HasFriendlyPiece(B, S(r + d[1], c + d[2]), color)
               /\ IsSquareSafe(B, color, r + d[1], c + d[2])}
  IN {S(r + d[1], c + d[2]) : d \in ds}

\* King.get_legal_moves
KingGetLegalMoves(B, p) ==
  IF B.pc[p].pos = NoSq THEN {}
  ELSE {CreateMove(B, p, s) : s \in KingStepEnds(B, p)} \cup GetCastlingMoves(B, p)

\* The end squares of King.get_legal_moves
KingEnds(B, p) ==
  IF B.pc[p].pos = NoSq THEN {}
  ELSE KingStepEnds(B, p) \cup {mv.to : mv \in GetCastlingMoves(B, p)}

\* piece.get_possible_moves(board), dispatched on the kind
GetPossibleMoves(B, p) ==
  IF B.pc[p].kind = King THEN KingGetLegalMoves(B, p) ELSE NonKingMoves(B, p)

\* The end squares of piece.get_possible_moves(board)
PossibleEnds(B, p) ==
  IF B.pc[p].kind = King THEN KingEnds(B, p) ELSE NonKingEnds(B, p)

(***************************************************************************)
(* can_move_to of the pieces.                                              *)
(***************************************************************************)
\* Bishop.can_move_to
BishopCanMoveTo(B, p, target) ==
  LET r == Row(B.pc[p].pos)
      c == Col(B.pc[p].pos)
      row_diff == Abs(Row(target) - r)
      col_diff == Abs(Col(target) - c)
      row_step == IF Row(target) > r THEN 1 ELSE -1
      col_step == IF Col(target) > c THEN 1 ELSE -1
  IN /\ ~HasFriendlyPiece(B, target, B.pc[p].color)
     /\ row_diff = col_diff
     /\ \A k \in 1..(row_diff - 1) : IsEmpty(B, S(r + k * row_step, c + k * col_step))

\* Rook.can_move_to
RookCanMoveTo(B, p, target) ==
  LET r == Row(B.pc[p].pos)
      c == Col(B.pc[p].pos)
      row_step == IF r = Row(target) THEN 0 ELSE IF Row(target) > r THEN 1 ELSE -1
      col_step == IF c = Col(target) THEN 0 ELSE IF Col(target) > c THEN 1 ELSE -1
      n == Abs(Row(target) - r) + Abs(Col(target) - c)
  IN /\ (r = Row(target) \/ c = Col(target))
     /\ ~HasFriendlyPiece(B, target, B.pc[p].color)
     /\ \A k \in 1..(n - 1) : IsEmpty(B, S(r + k * row_step, c + k * col_step))

\* Queen.can_move_to
QueenCanMoveTo(B, p, target) ==
  LET r == Row(B.pc[p].pos)
      c == Col(B.pc[p].pos)
      row_diff == Row(target) - r
      col_diff == Col(target) - c
      row_step == IF row_diff = 0 THEN 0 ELSE row_diff \div Abs(row_diff)
      col_step == IF col_diff = 0 THEN 0 ELSE col_diff \div Abs(col_diff)
      n == IF Abs(row_diff) > Abs(col_diff) THEN Abs(row_diff) ELSE Abs(col_diff)
  IN /\ ~HasFriendlyPiece(B, target, B.pc[p].color)
     /\ (Abs(row_diff) = Abs(col_diff) \/ row_diff = 0 \/ col_diff = 0)
     /\ \A k \in 1..(n - 1) : IsEmpty(B, S(r + k * row_step, c + k * col_step))

\* Knight.can_move_to
KnightCanMoveTo(B, p, target) ==
  LET row_diff == Abs(Row(target) - Row(B.pc[p].pos))
      col_diff == Abs(Col(target) - Col(B.pc[p].pos))
  IN /\ ~HasFriendlyPiece(B, target, B.pc[p].color)
     /\ ((row_diff = 2 /\ col_diff = 1) \/ (row_diff = 1 /\ col_diff = 2))

\* Pawn.can_move_to and King.can_move_to: the target is the end of one of
\* the piece's generated moves.
GeneratedCanMoveTo(B, p, target) == target \in PossibleEnds(B, p)

\* piece.can_move_to(target, board)
CanMoveTo(B, p, target) ==
  LET k == B.pc[p].kind
  IN IF k = Bishop THEN BishopCanMoveTo(B, p, target)
     ELSE IF k = Rook THEN RookCanMoveTo(B, p, target)
     ELSE IF k = Queen THEN QueenCanMoveTo(B, p, target)
     ELSE IF k = Knight THEN KnightCanMoveTo(B, p, target)
     ELSE GeneratedCanMoveTo(B, p, target)

(***************************************************************************)
(* Board.make_move and Board.undo_move.                                    *)
(***************************************************************************)
\* Board._get_position_key: the placement
PositionKey(B) ==
  {<<s, B.pc[B.sq[s]].kind, B.pc[B.sq[s]].color>> : s \in {x \in Sq : B.sq[x] # NoPiece}}

\* Board.make_move: the move is carried out (its result is dropped), then
\* recorded with the captured piece it holds by then.
BoardMakeMove(B, m) ==
  LET B1 == Execute(B, m).b
      done == [m EXCEPT !.cap = CapturedAfter(B, m)]
  IN [B1 EXCEPT !.mh = Append(B.mh, done),
                !.ph = B.ph \cup {PositionKey(B1)}]

\* What Board.make_move evaluates to: it has no return statement.
BoardMakeMoveResult(B, m) == FALSE

\* The part of Board._restore_position that inverts a promotion: the piece
\* the promotion put on the end square is discarded and the pawn put back.
RestorePromotion(B, m) ==
  CHOOSE r \in
    {IF /\ b.pc[m.piece].pos = NoSq /\ b.sq[m.to] # NoPiece
        /\ b.pc[b.sq[m.to]].kind = m.promotion
        /\ b.sq[m.from] = NoPiece
     THEN [b EXCEPT !.sq[m.to] = NoPiece, !.sq[m.from] = m.piece,
                    !.pc[b.sq[m.to]] = NoRec,
                    !.pc[m.piece].pos = m.from,
                    !.pc[m.piece].moved = ~m.first]
     ELSE b : b \in {B}} : TRUE

\* Board._restore_position: the inverse of the execution of m.
RestorePosition(B, m) ==
  LET mover == m.piece
      B1 == IF B.pc[mover].pos = m.to
            THEN [B EXCEPT !.sq[m.to] = NoPiece, !.sq[m.from] = mover,
                           !.pc[mover].pos = m.from,
                           !.pc[mover].moved = ~m.first]
            ELSE IF m.is_promotion /\ m.promotion # NoKind
            THEN RestorePromotion(B, m)
            ELSE B
      capsq == IF m.is_en_passant /\ ~m.is_castle
               THEN EnPassantVictimSquare(m) ELSE m.to
      B2 == IF m.cap # NoPiece /\ B1.pc[m.cap].pos = NoSq /\ B1.sq[capsq] = NoPiece
            THEN [B1 EXCEPT !.sq[capsq] = m.cap, !.pc[m.cap].pos = capsq,
                            !.reg = B1.reg \cup {m.cap},
                            !.kings = [c \in Colors |->
                                         IF B1.pc[m.cap].kind = King
                                            /\ B1.pc[m.cap].color = c
                                         THEN m.cap ELSE B1.kings[c]]]
            ELSE B1
      is_kingside == Col(m.to) > Col(m.from)
      rook_start == S(Row(m.from), IF is_kingside THEN 7 ELSE 0)
      rook_end == S(Row(m.from), IF is_kingside THEN 5 ELSE 3)
      rook == B2.sq[rook_end]
  IN IF m.is_castle /\ B.pc[mover].pos = m.to /\ rook # NoPiece
     THEN [B2 EXCEPT !.sq[rook_end] = NoPiece, !.sq[rook_start] = rook,
                     !.pc[rook].pos = rook_start, !.pc[rook].moved = FALSE]
     ELSE B2

\* Board.undo_move taking the oldest move off the history
BoardUndoMoveOldest(B) ==
  LET m == B.mh[1]
      B1 == [B EXCEPT !.mh = Tail(B.mh)]
  IN RestorePosition(B1, m)

\* Board.undo_move (the history is not empty)
BoardUndoMove(B) ==
  LET m == B.mh[Len(B.mh)]
      B1 == [B EXCEPT !.mh = SubSeq(B.mh, 1, Len(B.mh) - 1)]
  IN RestorePosition(B1, m)

(***************************************************************************)
(* GameRule (src/core/game_rule.py).                                       *)
(***************************************************************************)
Active == "active"
Check == "check"
Checkmate == "checkmate"
Stalemate == "stalemate"
Draw == "draw"

\* GameRule.__init__
RuleInit ==
  [current_player |-> White, state |-> Active,
   fifty_move_counter |-> 0, move_count |-> 0,
   move_history |-> <<>>, position_history |-> <<>>,
   en_passant_target |-> NoSq, en_passant_pawn |-> NoPiece]

\* GameRule.is_game_over
RuleIsGameOver(R) == R.state \in {Checkmate, Stalemate, Draw}

\* GameRule.can_en_passant
CanEnPassant(R, B, pawn, target) ==
  /\ R.en_passant_target = target
  /\ R.en_passant_pawn # NoPiece
  /\ B.pc[R.en_passant_pawn].color # B.pc[pawn].color

\* GameRule._is_castle_legal: the conditions under which the king generates
\* the castling move.
IsCastleLegal(B, m) ==
  LET color == B.pc[m.piece].color
      row == IF color = White THEN 7 ELSE 0
  IN /\ B.pc[m.piece].kind = King
     /\ ~B.pc[m.piece].moved
     /\ m.from = S(row, 4)
     /\ \/ m.to = S(row, 6) /\ CanCastleKingside(B, color, row)
        \/ m.to = S(row, 2) /\ CanCastleQueenside(B, color, row)

\* GameRule._is_square_attacked: a piece of by_color has the square among
\* the ends of its moves.
IsSquareAttacked(B, s, by_color) ==
  \E p \in GetPieces(B, by_color) : s \in PossibleEnds(B, p)

\* GameRule._causes_self_check: apply the move, look at the mover's king.
CausesSelfCheck(B, m) ==
  LET color == B.pc[m.piece].color
      B1 == BoardMakeMove(B, m)
      king == GetKing(B1, color)
  IN king # NoPiece /\ B1.pc[king].pos # NoSq
     /\ IsSquareAttacked(B1, B1.pc[king].pos, Opposite(color))

\* is_valid_move without its last test
IsValidMoveNoSelfCheck(R, B, m) ==
  /\ m.piece # NoPiece
  /\ B.pc[m.piece].color = R.current_player
  /\ ~(m.is_en_passant /\ ~CanEnPassant(R, B, m.piece, m.to))
  /\ ~(m.is_castle /\ ~IsCastleLegal(B, m))
  /\ CanMoveTo(B, m.piece, m.to)

\* GameRule.is_valid_move
IsValidMove(R, B, m) ==
  /\ m.piece # NoPiece
  /\ B.pc[m.piece].color = R.current_player
  /\ ~(m.is_en_passant /\ ~CanEnPassant(R, B, m.piece, m.to))
  /\ ~(m.is_castle /\ ~IsCastleLegal(B, m))
  /\ CanMoveTo(B, m.piece, m.to)
  /\ ~CausesSelfCheck(B, m)

\* GameRule.get_legal_moves
GetLegalMoves(R, B, p) ==
  {mv \in GetPossibleMoves(B, p) : IsValidMove(R, B, mv)}

\* GameRule._has_no_legal_moves
HasNoLegalMoves(R, B) ==
  \A p \in GetPieces(B, R.current_player) : GetLegalMoves(R, B, p) = {}

\* GameRule._is_check
IsCheck(R, B) ==
  LET king == GetKing(B, R.current_player)
  IN king # NoPiece /\ B.pc[king].pos # NoSq
     /\ IsSquareAttacked(B, B.pc[king].pos, Opposite(R.current_player))

\* GameRule._is_checkmate
IsCheckmate(R, B) == IsCheck(R, B) /\ HasNoLegalMoves(R, B)

\* GameRule._is_stalemate
IsStalemate(R, B) == ~IsCheck(R, B) /\ HasNoLegalMoves(R, B)

\* The threshold of GameRule._is_draw
FiftyMoveLimit == 50

\* _is_insufficient_material without its test for a bishop or knight
InsufficientMaterialAnyPiece(white_pieces, black_pieces, kindOf) ==
  \/ Cardinality(white_pieces) = 1 /\ Cardinality(black_pieces) = 1
  \/ Cardinality(white_pieces) = 2 /\ Cardinality(black_pieces) = 1
  \/ Cardinality(white_pieces) = 1 /\ Cardinality(black_pieces) = 2

\* GameRule._is_insufficient_material on the two piece lists
InsufficientMaterial(white_pieces, black_pieces, kindOf) ==
  \/ Cardinality(white_pieces) = 1 /\ Cardinality(black_pieces) = 1
  \/ /\ \/ Cardinality(white_pieces) = 2 /\ Cardinality(black_pieces) = 1
        \/ Cardinality(white_pieces) = 1 /\ Cardinality(black_pieces) = 2
     /\ \E p \in white_pieces \cup black_pieces : kindOf[p] \in {Bishop, Knight}

\* GameRule._is_insufficient_material
IsInsufficientMaterial(B) ==
  InsufficientMaterial(GetPieces(B, White), GetPieces(B, Black),
                       [p \in Ids |-> B.pc[p].kind])

\* Whether the king of c and its rook on column w are both at home, unmoved
HasCastlingRight(B, c, w) ==
  LET row == IF c = White THEN 7 ELSE 0
      k == B.sq[S(row, 4)]
      r == B.sq[S(row, w)]
  IN /\ k # NoPiece /\ B.pc[k].kind = King /\ B.pc[k].color = c /\ ~B.pc[k].moved
     /\ r # NoPiece /\ B.pc[r].kind = Rook /\ B.pc[r].color = c /\ ~B.pc[r].moved

\* The castling rights a position still holds
CastlingRights(B) ==
  <<HasCastlingRight(B, White, 7), HasCastlingRight(B, White, 0),
    HasCastlingRight(B, Black, 7), HasCastlingRight(B, Black, 0)>>

\* GameRule._get_board_state: the signature of the position
GetBoardState(R, B) ==
  [placement |-> PositionKey(B), side |-> R.current_player,
   rights |-> CastlingRights(B), ep |-> R.en_passant_target]

Occurrences(h, x) == Cardinality({i \in 1..Len(h) : h[i] = x})

\* GameRule._is_threefold_repetition
IsThreefoldRepetition(R, B) ==
  Occurrences(R.position_history, GetBoardState(R, B)) >= 3

\* GameRule._is_draw, its first test
FiftyMoveRuleHolds(R) == R.fifty_move_counter >= FiftyMoveLimit

\* GameRule._is_draw
IsDraw(R, B) ==
  \/ FiftyMoveRuleHolds(R)
  \/ IsInsufficientMaterial(B)
  \/ IsThreefoldRepetition(R, B)

\* GameRule._update_game_state
UpdateGameState(R, B) ==
  [R EXCEPT !.state = IF IsCheckmate(R, B) THEN Checkmate
                      ELSE IF IsStalemate(R, B) THEN Stalemate
                      ELSE IF IsDraw(R, B) THEN Draw
                      ELSE IF IsCheck(R, B) THEN Check
                      ELSE Active]

\* update_en_passant that keeps the target of an earlier move
UpdateEnPassantKeep(R, B, m) ==
  IF B.pc[m.piece].kind = Pawn /\ Abs(Row(m.to) - Row(m.from)) = 2
  THEN [R EXCEPT !.en_passant_pawn = m.piece,
                 !.en_passant_target = S((Row(m.from) + Row(m.to)) \div 2, Col(m.to))]
  ELSE R

\* GameRule.update_en_passant
UpdateEnPassant(R, B, m) ==
  IF B.pc[m.piece].kind = Pawn /\ Abs(Row(m.to) - Row(m.from)) = 2
  THEN [R EXCEPT !.en_passant_pawn = m.piece,
                 !.en_passant_target = S((Row(m.from) + Row(m.to)) \div 2, Col(m.to))]
  ELSE [R EXCEPT !.en_passant_pawn = NoPiece, !.en_passant_target = NoSq]

\* GameRule.make_move, lines 83-94: the counters, the position history and
\* the en-passant state of a valid move, before the board is asked.
RuleBeforeBoard(R, B, m) ==
  LET R1 == [R EXCEPT !.move_count = R.move_count + 1,
                      !.fifty_move_counter =
                         IF B.pc[m.piece].kind = Pawn \/ m.is_capture
                         THEN 0 ELSE R.fifty_move_counter + 1,
                      !.position_history =
                         Append(R.position_history, GetBoardState(R, B))]
  IN UpdateEnPassant(R1, B, m)

\* GameRule.make_move, lines 97-102: the branch taken when the board's
\* make_move is truthy.
RuleAccept(R, B, m) ==
  UpdateGameState([R EXCEPT !.move_history = Append(R.move_history, m),
                            !.current_player = Opposite(R.current_player)], B)

(***************************************************************************)
(* GameState (src/core/game_state.py).                                     *)
(***************************************************************************)
Resigned == "resigned"
Timeout == "timeout"

\* GameState.__init__
GameInit ==
  [current_player |-> White, status |-> Active, move_history |-> <<>>,
   captured |-> [c \in Colors |-> <<>>],
   half_move_clock |-> 0, full_move_number |-> 1]

\* GameState.is_game_over
GameIsGameOver(G) == G.status \in {Checkmate, Stalemate, Draw, Resigned, Timeout}

\* GameState._is_king_in_check
IsKingInCheck(B, color) ==
  LET king == GetKing(B, color)
  IN /\ king # NoPiece
     /\ \E p \in GetPieces(B, Opposite(color)) :
          B.pc[king].pos \in PossibleEnds(B, p)

\* _is_legal_move that never looks at the king
IsLegalMoveAlways(G, B, m) == TRUE

\* GameState._is_legal_move: what it returns
IsLegalMove(G, B, m) == ~IsKingInCheck(BoardMakeMove(B, m), G.current_player)

\* GameState._is_legal_move: the board it leaves
BoardAfterIsLegalMove(B, m) == BoardUndoMove(BoardMakeMove(B, m))

\* GameState.get_legal_moves_for_piece: what it returns
GetLegalMovesForPiece(G, B, p) ==
  IF B.pc[p].color # G.current_player THEN {}
  ELSE {mv \in GetPossibleMoves(B, p) : IsLegalMove(G, B, mv)}

\* GameState.get_legal_moves_for_piece: the board it leaves, every trial
\* move made and taken back
BoardAfterGetLegalMoves(G, B, p) ==
  IF B.pc[p].color # G.current_player THEN B
  ELSE [B EXCEPT !.ph = UNION ({B.ph} \cup {BoardAfterIsLegalMove(B, mv).ph :
                                               mv \in GetPossibleMoves(B, p)})]

\* GameState._is_valid_move: the request is one of the legal moves of its piece
GameIsValidMove(G, B, m) ==
  /\ B.pc[m.piece].color = G.current_player
  /\ \E mv \in GetPossibleMoves(B, m.piece) :
       mv.from = m.from /\ mv.to = m.to /\ IsLegalMove(G, B, mv)

\* The number of half-moves without capture or pawn move at which a game
\* is drawn: fifty full moves
HalfMoveLimit == 2 * FiftyMoveLimit

\* GameState._update_game_status: the classification of the position for
\* the side to move
GameUpdateStatus(G, B) ==
  LET none == \A p \in GetPieces(B, G.current_player) :
                 \A mv \in GetPossibleMoves(B, p) : ~IsLegalMove(G, B, mv)
      check == IsKingInCheck(B, G.current_player)
  IN [G EXCEPT !.status =
        IF none THEN (IF check THEN Checkmate ELSE Stalemate)
        ELSE IF G.half_move_clock >= HalfMoveLimit \/ IsInsufficientMaterial(B)
             THEN Draw
        ELSE IF check THEN Check
        ELSE Active]

\* _update_move_clocks with the half-move clock reset by pawn moves only
UpdateMoveClocksPawnOnly(G, B, m) ==
  [G EXCEPT !.half_move_clock =
              IF B.pc[m.piece].kind = Pawn THEN 0
              ELSE G.half_move_clock + 1,
            !.full_move_number =
              IF G.current_player = Black THEN G.full_move_number + 1
              ELSE G.full_move_number]

\* GameState._update_move_clocks
UpdateMoveClocks(G, B, m) ==
  [G EXCEPT !.half_move_clock =
              IF m.is_capture \/ B.pc[m.piece].kind = Pawn THEN 0
              ELSE G.half_move_clock + 1,
            !.full_move_number =
              IF G.current_player = Black THEN G.full_move_number + 1
              ELSE G.full_move_number]

\* GameState._execute_move: the captured piece is listed, the board makes
\* the move
GameExecuteMove(G, B, m) ==
  [game |-> IF m.is_capture /\ B.sq[m.to] # NoPiece
            THEN [G EXCEPT !.captured[G.current_player] =
                              Append(G.captured[G.current_player], B.sq[m.to])]
            ELSE G,
   board |-> BoardMakeMove(B, m)]

\* GameState._update_after_move
UpdateAfterMove(G, B0, B1, m) ==
  LET G1 == UpdateMoveClocks(G, B0, m)
      G2 == [G1 EXCEPT !.move_history = Append(G1.move_history, m),
                       !.current_player = Opposite(G1.current_player)]
  IN GameUpdateStatus(G2, B1)

\* _validate_move_conditions without the test of is_game_over
ValidateMoveConditionsAnyStatus(G, B, from, to) ==
  /\ B.sq[from] # NoPiece
  /\ B.pc[B.sq[from]].color = G.current_player
  /\ from # to

\* GameState._validate_move_conditions
ValidateMoveConditions(G, B, from, to) ==
  /\ B.sq[from] # NoPiece
  /\ B.pc[B.sq[from]].color = G.current_player
  /\ ~GameIsGameOver(G)
  /\ from # to

(***************************************************************************)
(* Positions the boards start from.  File a..h is column 0..7 and rank n    *)
(* is row 8 - n.                                                           *)
(***************************************************************************)
At(file, rank) == S(8 - rank, file)

\* King and both rooks at home, a black pawn on e2 beside the castling path
PosCastle ==
  <<<<King, White, At(4, 1), FALSE>>, <<Rook, White, At(7, 1), FALSE>>,
    <<Rook, White, At(0, 1), FALSE>>, <<King, Black, At(4, 8), TRUE>>,
    <<Pawn, Black, At(4, 2), TRUE>>>>

\* A white rook pinned on the e-file
PosPin ==
  <<<<King, White, At(4, 1), TRUE>>, <<Rook, White, At(4, 2), TRUE>>,
    <<Rook, Black, At(4, 8), TRUE>>, <<King, Black, At(0, 8), TRUE>>>>

\* A white pawn on its start square, a black pawn beside its double step
PosEnPassant ==
  <<<<King, White, At(7, 1), TRUE>>, <<Pawn, White, At(4, 2), FALSE>>,
    <<Pawn, Black, At(3, 4), TRUE>>, <<King, Black, At(7, 8), TRUE>>>>

\* King and rook against king: the rook goes to and fro
PosShuffle ==
  <<<<King, White, At(4, 1), TRUE>>, <<Rook, White, At(0, 1), TRUE>>,
    <<King, Black, At(7, 8), TRUE>>>>

\* King and knight against king and pawn
PosMaterial ==
  <<<<King, White, At(2, 3), TRUE>>, <<Knight, White, At(0, 1), TRUE>>,
    <<King, Black, At(7, 8), TRUE>>, <<Pawn, Black, At(1, 3), TRUE>>>>

StartPositions == {PosCastle, PosPin, PosEnPassant, PosMaterial}

(***************************************************************************)
(* The calls on a GameRule.                                                *)
(***************************************************************************)
\* Why GameRule.is_valid_move turns a move down: the first test that fails.
WhyNot(R, B, m) ==
  IF m.piece = NoPiece THEN "no_piece"
  ELSE IF B.pc[m.piece].color # R.current_player THEN "not_turn"
  ELSE IF m.is_en_passant /\ ~CanEnPassant(R, B, m.piece, m.to) THEN "en_passant"
  ELSE IF m.is_castle /\ ~IsCastleLegal(B, m) THEN "castle"
  ELSE IF ~CanMoveTo(B, m.piece, m.to) THEN "geometry"
  ELSE IF CausesSelfCheck(B, m) THEN "self_check"
  ELSE "valid"

\* The board of PosShuffle with the rook on a1 (k even) or b1 (k odd)
ShuffleSquare(k) == IF k % 2 = 0 THEN At(0, 1) ELSE At(1, 1)
ShufflePlacement(k) ==
  Setup([PosShuffle EXCEPT ![2] = <<Rook, White, ShuffleSquare(k), TRUE>>])

\* The game after k valid calls of make_move in which the rook of PosShuffle
\* went to and fro between a1 and b1
GameAfter(k) ==
  [board |-> [ShufflePlacement(k) EXCEPT
                !.mh = [i \in 1..k |-> Request(ShufflePlacement(i - 1),
                                               ShuffleSquare(i - 1), ShuffleSquare(i))],
                !.ph = {PositionKey(ShufflePlacement(i)) : i \in 1..k}],
   rule |-> [RuleInit EXCEPT
                !.move_count = k,
                !.fifty_move_counter = k,
                !.position_history =
                   [i \in 1..k |-> GetBoardState(RuleInit, ShufflePlacement(i - 1))]]]

LongGame == GameAfter(FiftyMoveLimit - 1)

\* The fields of a position that a round trip has to give back
Signature(R, B) ==
  [placement |-> PositionKey(B), side |-> R.current_player,
   moved |-> [p \in Ids |-> B.pc[p].moved], ep |-> R.en_passant_target,
   fifty |-> R.fifty_move_counter, count |-> R.move_count]

\* No search is under way
NoSearch == [op |-> "none"]

\* The last call: its operation, how is_valid_move saw the request, the
\* squares of a valid request, the number of valid requests and of queries
\* so far, and what the properties need of the call (pre).
NoCall == [op |-> "init", why |-> "", from |-> NoSq, to |-> NoSq, n |-> 0,
           q |-> 0, pre |-> <<>>]

InitRule ==
  /\ \/ \E pl \in StartPositions : board = Setup(pl) /\ rule = RuleInit
     \/ board = LongGame.board /\ rule = LongGame.rule
  /\ game = GameInit
  /\ ret = "None"
  /\ call = NoCall
  /\ search = NoSearch

\* The start squares asked for: every occupied square and one empty square
FromSquares(B) ==
  {s \in Sq : IsOccupied(B, s)} \cup {CHOOSE s \in Sq : IsEmpty(B, s)}

\* Move(start_square, end_square, piece) for the squares asked for
Requests(B) == {Request(B, from, to) : from \in FromSquares(B), to \in Sq}

\* GameRule.make_move(m)
RuleMakeMove(m) ==
  /\ call.n < MaxPlies
  /\ IF ~IsValidMove(rule, board, m)
     THEN /\ UNCHANGED <<board, rule>>
          /\ ret' = "False"
     ELSE /\ board' = BoardMakeMove(board, m)
          /\ \E R1 \in {RuleBeforeBoard(rule, board, m)} :
               IF BoardMakeMoveResult(board, m)
               THEN rule' = RuleAccept(R1, board', m) /\ ret' = "True"
               ELSE rule' = R1 /\ ret' = "False"
  /\ \E why \in {WhyNot(rule, board, m)} :
       call' = IF why = "valid"
               THEN [op |-> "make_move", why |-> why,
                     from |-> m.from, to |-> m.to, n |-> call.n + 1,
                     q |-> call.q, pre |-> <<Signature(rule, board)>>]
               ELSE [op |-> "make_move", why |-> why,
                     from |-> NoSq, to |-> NoSq, n |-> call.n, q |-> call.q,
                     pre |-> <<>>]
  /\ UNCHANGED <<game, search>>

\* GameRule.undo_move
RuleUndoMove ==
  /\ IF rule.move_history = <<>>
     THEN UNCHANGED <<board, rule>> /\ ret' = "None"
     ELSE \E R1 \in {[rule EXCEPT
                        !.move_history = SubSeq(rule.move_history, 1,
                                                Len(rule.move_history) - 1),
                        !.position_history = SubSeq(rule.position_history, 1,
                                                Len(rule.position_history) - 1)]} :
            IF board.mh = <<>>
            THEN UNCHANGED board /\ rule' = R1 /\ ret' = "None"
            ELSE /\ board' = BoardUndoMove(board)
                 /\ \E R2 \in {[R1 EXCEPT
                                  !.current_player = Opposite(R1.current_player),
                                  !.move_count = R1.move_count - 1]} :
                      rule' = UpdateGameState(R2, board')
                 /\ ret' = "Move"
  /\ call' = [op |-> "undo_move", why |-> "", from |-> NoSq, to |-> NoSq,
              n |-> call.n, q |-> call.q,
              pre |-> IF call.op = "make_move" THEN call.pre ELSE <<>>]
  /\ UNCHANGED <<game, search>>

NextRule ==
  \/ \E m \in Requests(board) : RuleMakeMove(m)
  \/ RuleUndoMove

SpecRule == InitRule /\ [][NextRule]_vars

(***************************************************************************)
(* The calls on a GameState.                                               *)
(***************************************************************************)
InitState ==
  /\ \E pl \in StartPositions : board = Setup(pl)
  /\ rule = RuleInit
  /\ game = GameInit
  /\ ret = "None"
  /\ call = [NoCall EXCEPT !.pre = {}]
  /\ search = NoSearch

\* GameState.make_move(start_square, end_square)
GameMakeMove(from, to) ==
  /\ call.n < MaxPlies
  /\ \E m \in {Request(board, from, to)} :
       IF ~ValidateMoveConditions(game, board, from, to)
          \/ ~GameIsValidMove(game, board, m)
       THEN /\ UNCHANGED <<game, board>>
            /\ ret' = "False"
            /\ call' = [op |-> "make_move", why |-> "rejected", from |-> NoSq,
                        to |-> NoSq, n |-> call.n, q |-> call.q, pre |-> {}]
       ELSE /\ \E x \in {GameExecuteMove(game, board, m)} :
                 /\ board' = x.board
                 /\ game' = UpdateAfterMove(x.game, board, board', m)
            /\ ret' = "True"
            /\ call' = [op |-> "make_move", why |-> "valid", from |-> from,
                        to |-> to, n |-> call.n + 1, q |-> call.q, pre |-> {}]
  /\ UNCHANGED <<rule, search>>

\* get_legal_moves_for_piece(the piece on from): call.pre keeps the moves
\* it returned
GameGetLegalMoves(from) ==
  /\ call.q < MaxQueries
  /\ IsOccupied(board, from)
  /\ board' = BoardAfterGetLegalMoves(game, board, board.sq[from])
  /\ ret' = "Moves"
  /\ call' = [op |-> "get_legal_moves", why |-> "", from |-> from, to |-> NoSq,
              n |-> call.n, q |-> call.q + 1,
              pre |-> GetLegalMovesForPiece(game, board, board.sq[from])]
  /\ UNCHANGED <<rule, game, search>>

\* The end squares asked for from a start square: the ends of the moves its
\* piece generates, the start square itself and one square beside those
ToSquares(B, from) ==
  LET ends == IF IsOccupied(B, from)
              THEN PossibleEnds(B, B.sq[from]) \cup {from}
              ELSE {from}
  IN ends \cup {CHOOSE s \in Sq : s \notin ends}

NextState ==
  \/ \E from \in FromSquares(board) :
       \E to \in ToSquares(board, from) : GameMakeMove(from, to)
  \/ \E from \in Sq : GameGetLegalMoves(from)

SpecState == InitState /\ [][NextState]_vars

(***************************************************************************)
(* GameRule._is_insufficient_material asked on boards of every material.   *)
(***************************************************************************)
\* The pieces a side holds beside its king: at most MaxExtras of them
MaxExtras == (MaxPieces - 2) \div 2
ExtraKinds == {Pawn, Knight, Bishop, Rook, Queen}
Extras == {<<>>} \cup UNION {[1..n -> ExtraKinds] : n \in 1..MaxExtras}

\* Kings on e1 and e8, White's other pieces from a2 on, Black's from a7 on
MaterialPosition(w, b) ==
  <<<<King, White, At(4, 1), TRUE>>, <<King, Black, At(4, 8), TRUE>>>>
  \o [i \in 1..Len(w) |-> <<w[i], White, At(i - 1, 2), TRUE>>]
  \o [i \in 1..Len(b) |-> <<b[i], Black, At(i - 1, 7), TRUE>>]

InitMaterial ==
  /\ \E w \in Extras, b \in Extras : board = Setup(MaterialPosition(w, b))
  /\ rule = RuleInit
  /\ game = GameInit
  /\ ret = "None"
  /\ call = NoCall
  /\ search = NoSearch

RuleIsInsufficientMaterial ==
  /\ call.op = "init"
  /\ ret' = IF IsInsufficientMaterial(board) THEN "True" ELSE "False"
  /\ call' = [call EXCEPT !.op = "is_insufficient_material"]
  /\ UNCHANGED <<board, rule, game, search>>

NextMaterial == RuleIsInsufficientMaterial

SpecMaterial == InitMaterial /\ [][NextMaterial]_vars

(***************************************************************************)
(* Properties of GameRule.make_move and GameRule.undo_move.                *)
(***************************************************************************)
\* C1: a request that is not in the legal set (no piece on the start
\* square, a piece of the side not to move, an en-passant or castling
\* request that is not available, a geometry the piece cannot perform, a
\* move that leaves the mover's king attacked) is answered False and
\* leaves the board and every field of the rule as they were.
RejectedMoveChangesNothing ==
  [][(call'.op = "make_move" /\ call'.why # "valid")
       => (ret' = "False" /\ board' = board /\ rule' = rule)]_vars

\* A request that would have left the mover's king attacked was turned down
RejectedSelfCheckSeen ==
  call.op = "make_move" /\ call.why = "self_check" /\ ret = "False"

\* C2: a request in the legal set is answered True; afterwards the moved
\* piece stands on the end square, the start square is empty, the move is
\* the last entry of the move history and the side to move is the opponent.
LegalMoveAccepted ==
  (call.op = "make_move" /\ call.why = "valid")
    => /\ ret = "True"
       /\ board.sq[call.from] = NoPiece
       /\ board.sq[call.to] # NoPiece
       /\ rule.move_history # <<>>
       /\ rule.move_history[Len(rule.move_history)].from = call.from
       /\ rule.move_history[Len(rule.move_history)].to = call.to
       /\ rule.current_player = Opposite(call.pre[1].side)

\* C3: undoing the move just made gives back the signature the move found:
\* placement, side to move, has-moved flags, en-passant target, fifty-move
\* counter and move count.
UndoRestoresSignature ==
  (call.op = "undo_move" /\ call.pre # <<>>)
    => Signature(rule, board) = call.pre[1]

(***************************************************************************)
(* Attack by the rules of chess, read off the grid.                        *)
(***************************************************************************)
Sign(x) == IF x > 0 THEN 1 ELSE IF x < 0 THEN -1 ELSE 0
Max(x, y) == IF x > y THEN x ELSE y

\* No piece stands strictly between two squares of a line
ClearBetween(B, a, b) ==
  LET dr == Sign(Row(b) - Row(a))
      dc == Sign(Col(b) - Col(a))
      n == Max(Abs(Row(b) - Row(a)), Abs(Col(b) - Col(a)))
  IN \A k \in 1..(n - 1) : B.sq[S(Row(a) + k * dr, Col(a) + k * dc)] = NoPiece

\* The piece standing on a attacks b
Attacks(B, a, b) ==
  LET p == B.sq[a]
      k == B.pc[p].kind
      dr == Row(b) - Row(a)
      dc == Col(b) - Col(a)
      straight == (dr = 0) # (dc = 0)
      diagonal == Abs(dr) = Abs(dc) /\ dr # 0
  IN /\ p # NoPiece
     /\ a # b
     /\ \/ k = Pawn /\ dr = Direction(B.pc[p].color) /\ Abs(dc) = 1
        \/ k = Knight /\ {Abs(dr), Abs(dc)} = {1, 2}
        \/ k = King /\ Max(Abs(dr), Abs(dc)) = 1
        \/ k \in {Rook, Queen} /\ straight /\ ClearBetween(B, a, b)
        \/ k \in {Bishop, Queen} /\ diagonal /\ ClearBetween(B, a, b)

\* A piece of by_color attacks b
UnderAttack(B, b, by_color) ==
  \E a \in Sq : B.sq[a] # NoPiece /\ B.pc[B.sq[a]].color = by_color /\ Attacks(B, a, b)

\* The king of color stands on the board and is attacked
KingAttacked(B, color) ==
  \E s \in Sq : /\ B.sq[s] # NoPiece
                /\ B.pc[B.sq[s]].kind = King
                /\ B.pc[B.sq[s]].color = color
                /\ UnderAttack(B, s, Opposite(color))

CastlingPath(m) ==
  {S(Row(m.from), c) : c \in IF Col(m.to) > Col(m.from) THEN 4..6 ELSE 2..4}

\* The squares strictly between the king and the rook of the wing
CastlingBetween(m) ==
  {S(Row(m.from), c) : c \in IF Col(m.to) > Col(m.from) THEN 5..6 ELSE 1..3}

CastlingRookSquare(m) == S(Row(m.from), IF Col(m.to) > Col(m.from) THEN 7 ELSE 0)

\* The conditions of the rules of chess on a castling move m
CastlingAllowed(B, m) ==
  LET color == B.pc[m.piece].color
      rook == B.sq[CastlingRookSquare(m)]
  IN /\ ~B.pc[m.piece].moved
     /\ rook # NoPiece
     /\ B.pc[rook].kind = Rook /\ B.pc[rook].color = color /\ ~B.pc[rook].moved
     /\ \A s \in CastlingBetween(m) : B.sq[s] = NoPiece
     /\ \A s \in CastlingPath(m) : ~UnderAttack(B, s, Opposite(color))

\* C5: a castling move is not generated when the king has moved, the rook
\* of the wing has moved or is absent, a square between them is occupied, or
\* the king's start, transit or landing square is attacked by an enemy piece
\* (a pawn's diagonal attack on an empty square included).
CastlingOnlyWhenAllowed ==
  \A c \in Colors :
    GetKing(board, c) # NoPiece =>
      \A mv \in GetCastlingMoves(board, GetKing(board, c)) :
        CastlingAllowed(board, mv)

(***************************************************************************)
(* Properties of the en-passant window and of the status.                  *)
(***************************************************************************)
\* The last valid request was a pawn's two-square push
LastWasTwoSquarePush ==
  /\ board.sq[call.to] # NoPiece
  /\ board.pc[board.sq[call.to]].kind = Pawn
  /\ Abs(Row(call.to) - Row(call.from)) = 2

\* The requests that is_valid_move takes for en-passant captures and lets pass
EnPassantAccepted ==
  {m \in Requests(board) : m.piece # NoPiece /\ m.is_en_passant
                           /\ IsValidMove(rule, board, m)}

StatusIsClassification ==
  (call.op = "make_move" /\ call.why = "valid")
    => rule.state = UpdateGameState(rule, board).state

\* C8: the fifty-move test of the draw holds only once 100 half-moves have
\* gone by without a capture or a pawn move.
FiftyMoveDrawAtHundredPlies ==
  FiftyMoveRuleHolds(rule) => rule.fifty_move_counter >= 100

\* C9: once a move has been made, the status is Draw whenever the position
\* reached has occurred at least three times among the recorded signatures.
ThreefoldRepetitionIsDraw ==
  (/\ call.op = "make_move" /\ call.why = "valid"
   /\ Occurrences(rule.position_history, GetBoardState(rule, board)) >= 3)
    => rule.state = Draw

(***************************************************************************)
(* Properties of the insufficient-material test.                           *)
(***************************************************************************)
\* The squares of the pieces on the grid that are not kings
OtherPieces(B) == {s \in Sq : B.sq[s] # NoPiece /\ B.pc[B.sq[s]].kind # King}

\* C10: the insufficient-material test answers True exactly for king
\* against king and for king and one bishop or knight against a lone king.
InsufficientMaterialExact ==
  call.op = "is_insufficient_material"
    => ((ret = "True") <=>
          \/ OtherPieces(board) = {}
          \/ /\ Cardinality(OtherPieces(board)) = 1
             /\ \A s \in OtherPieces(board) :
                  board.pc[board.sq[s]].kind \in {Bishop, Knight})

\* The test answered True for a king and a knight against a king
KingAndKnightAsked ==
  /\ call.op = "is_insufficient_material"
  /\ ret = "True"
  /\ \E s \in OtherPieces(board) : board.pc[board.sq[s]].kind = Knight

\* ---------------------------------------------------------------------
\* The search strategies (src/ai/strategies, src/chessBot.py)
\*
\* The strategies use a game only through its ordered list of legal
\* moves, make_move, undo_last_move, is_game_over, is_check and the
\* static evaluation.  A position is therefore a node of a finite game
\* tree: kids is the list of the positions its legal moves lead to, in
\* the order _sort_moves(_get_legal_moves(...)) yields them, ev the
\* evaluation of the material and the placement seen by the side to move,
\* over is_game_over, chk is_check and stuck that the side to move has no
\* legal move.  The positions at the foot of a tree have legal moves the
\* tree does not follow (kids is empty, stuck is FALSE); no search reaches
\* them with depth left.  A move is its index in that list.  The game under search is
\* the stack of positions from the root to the current one.
\*
\* time.time() is read at each test of the budget; a budget once spent
\* stays spent, so a run of the clock is the number of tests that pass
\* before the first one that finds the budget spent (deadline).
\* _negamax tests self.time_limit, which find_best_move never stores;
\* it is read as the time_limit of the call.
\* ---------------------------------------------------------------------

\* The largest number of legal moves of a position
MaxBranch == 2

\* The largest depth asked of a search, and the height of the game tree
MaxSearchDepth == 2

\* The evaluations of a position range over -MaxScore..MaxScore
MaxScore == 1

\* The largest number of budget tests that pass before the budget is spent
MaxClock == 14

CHECKMATE_SCORE == 100000

STALEMATE_SCORE == 0

\* float('inf'): above every score
Inf == 1000000000

\* None where a move is expected
NoMove == 0

Scores == -MaxScore..MaxScore

\* A run of the clock that never finds the budget spent
Never == MaxClock + 1000

\* The positions with no legal move
Ended ==
  {[ev |-> e, over |-> o, chk |-> c, stuck |-> TRUE, kids |-> <<>>] :
     e \in Scores, o \in BOOLEAN, c \in BOOLEAN}

\* The game trees of height at most h
RECURSIVE Positions(_)
Positions(h) ==
  IF h = 0
  THEN {[ev |-> e, over |-> FALSE, chk |-> FALSE, stuck |-> FALSE,
         kids |-> <<>>] : e \in Scores}
  ELSE Ended \cup
       {[ev |-> e, over |-> FALSE, chk |-> FALSE, stuck |-> FALSE, kids |-> k] :
          e \in Scores,
          k \in UNION {[1..n -> Positions(h - 1)] : n \in 1..MaxBranch}}

\* The position the game under search stands at
Top(st) == st.pos[Len(st.pos)]

\* The game handed to a search: the position, no budget test made yet
SearchStart(tree) == [pos |-> <<tree>>, n |-> 0, bal |-> TRUE, cuts |-> 0]

\* time.time() - start_time >= time_limit, at the n-th test
Expired(n) == n >= search.deadline

\* One more test of the budget has been made
Tick(st) == [st EXCEPT !.n = @ + 1]

\* game_state.make_move(move)
SearchMakeMove(st, i) == [st EXCEPT !.pos = Append(@, Top(st).kids[i])]

\* game_state.undo_last_move()
UndoLastMove(st) ==
  IF Len(st.pos) > 1
  THEN [st EXCEPT !.pos = SubSeq(@, 1, Len(@) - 1)]
  ELSE st

\* _evaluate_position_with_conditions(game_state), read as
\* evaluate_position: checkmate and stalemate have their constants
\* (current_player is never falsy), every other position its evaluation
EvaluatePosition(st) ==
  IF Top(st).stuck /\ Top(st).chk THEN -CHECKMATE_SCORE
  ELSE IF Top(st).stuck THEN STALEMATE_SCORE
  ELSE Top(st).ev

RECURSIVE Negamax(_, _, _, _)
RECURSIVE NegamaxLoopCutBeforeUndo(_, _, _, _, _, _)
RECURSIVE NegamaxLoop(_, _, _, _, _, _)

\* The move loop of _negamax, leaving on a cutoff before the undo
NegamaxLoopCutBeforeUndo(st, depth, alpha, beta, i, max_score) ==
  IF i > Len(Top(st).kids)
  THEN [score |-> max_score, st |-> st]
  ELSE LET r == Negamax(SearchMakeMove(st, i), depth - 1, -beta, -alpha)
           score == -r.score
           best == IF score > max_score THEN score ELSE max_score
           raised == IF score > alpha THEN score ELSE alpha
       IN IF raised >= beta
          THEN [score |-> best, st |-> [r.st EXCEPT !.cuts = @ + 1]]
          ELSE NegamaxLoop(UndoLastMove(r.st), depth, raised, beta, i + 1, best)

\* The move loop of _negamax from the i-th legal move on: make, search the
\* reply with the window negated, undo, keep the maximum, raise alpha,
\* leave on alpha >= beta
NegamaxLoop(st, depth, alpha, beta, i, max_score) ==
  IF i > Len(Top(st).kids)
  THEN [score |-> max_score, st |-> st]
  ELSE LET r == Negamax(SearchMakeMove(st, i), depth - 1, -beta, -alpha)
           after == UndoLastMove(r.st)
           score == -r.score
           best == IF score > max_score THEN score ELSE max_score
           raised == IF score > alpha THEN score ELSE alpha
       IN IF raised >= beta
          THEN [score |-> best, st |-> [after EXCEPT !.cuts = @ + 1]]
          ELSE NegamaxLoop(after, depth, raised, beta, i + 1, best)

\* _negamax: the budget test, the leaf evaluation, the position with no
\* legal move, then the move loop.  bal records that every frame so far
\* has returned with the game at the position it was entered with.
Negamax(st, depth, alpha, beta) ==
  LET r == IF Expired(st.n)
           THEN [score |-> 0, st |-> Tick(st)]
           ELSE IF depth = 0 \/ Top(st).over
           THEN [score |-> EvaluatePosition(st), st |-> Tick(st)]
           ELSE IF Top(st).kids = <<>>
           THEN [score |-> IF Top(st).chk THEN -CHECKMATE_SCORE
                                          ELSE STALEMATE_SCORE,
                 st |-> Tick(st)]
           ELSE NegamaxLoop(Tick(st), depth, alpha, beta, 1, -Inf)
  IN [r EXCEPT !.st.bal = @ /\ r.st.pos = st.pos]

\* What find_best_move holds between two depths: best_move, best_score,
\* alpha (set once, before the depth loop), and the move and depth of the
\* last depth iteration during which no budget test found the budget spent
SearchFresh ==
  [best_move |-> NoMove, best_score |-> -Inf, alpha |-> -Inf,
   done_move |-> NoMove, done_depth |-> 0]

RECURSIVE RootLoop(_, _, _, _, _, _)
\* The move loop of find_best_move from the i-th root move on: the budget
\* test, make, _negamax with (-beta, -alpha), undo, current best, alpha
RootLoop(st, d, i, cur_move, cur_score, alpha) ==
  IF i > Len(Top(st).kids)
  THEN [move |-> cur_move, score |-> cur_score, alpha |-> alpha, st |-> st]
  ELSE IF Expired(st.n)
  THEN [move |-> cur_move, score |-> cur_score, alpha |-> alpha,
        st |-> Tick(st)]
  ELSE LET r == Negamax(SearchMakeMove(Tick(st), i), d - 1, -Inf, -alpha)
           after == UndoLastMove(r.st)
           score == -r.score
       IN IF score > cur_score
          THEN RootLoop(after, d, i + 1, i, score, Max(alpha, score))
          ELSE RootLoop(after, d, i + 1, cur_move, cur_score,
                        Max(alpha, score))

RECURSIVE DepthLoop(_, _, _, _)
\* The depth loop of find_best_move from depth d on
DepthLoop(st, d, depth, acc) ==
  IF d > depth
  THEN acc @@ [st |-> st]
  ELSE IF Expired(st.n)
  THEN acc @@ [st |-> Tick(st)]
  ELSE LET r == RootLoop(Tick(st), d, 1, NoMove, -Inf, acc.alpha)
           whole == ~Expired(r.st.n - 1)
           better == r.score > acc.best_score
       IN DepthLoop(r.st, d + 1, depth,
            [best_move  |-> IF better THEN r.move ELSE acc.best_move,
             best_score |-> IF better THEN r.score ELSE acc.best_score,
             alpha      |-> r.alpha,
             done_move  |-> IF whole THEN r.move ELSE acc.done_move,
             done_depth |-> IF whole THEN d ELSE acc.done_depth])

\* NegamaxStrategy.find_best_move(game_state, time_limit, depth)
FindBestMove(tree, depth) ==
  DepthLoop(SearchStart(tree), 1, depth, SearchFresh)

\* Negamax over every move of every position, no window: the value of the
\* position at the depth
RECURSIVE FullNegamax(_, _)
FullNegamax(node, depth) ==
  IF node.stuck
  THEN (IF node.chk THEN -CHECKMATE_SCORE ELSE STALEMATE_SCORE)
  ELSE IF depth = 0 \/ node.over THEN node.ev
  ELSE LET vals == {-FullNegamax(node.kids[i], depth - 1) :
                      i \in 1..Len(node.kids)}
       IN CHOOSE v \in vals : \A w \in vals : w <= v

\* The first root move of the full-width search that reaches the value
FullRootMove(node, depth) ==
  IF node.kids = <<>> \/ depth = 0 THEN NoMove
  ELSE LET val(i) == -FullNegamax(node.kids[i], depth - 1)
       IN CHOOSE i \in 1..Len(node.kids) :
            /\ \A j \in 1..Len(node.kids) : val(j) <= val(i)
            /\ \A j \in 1..(i - 1) : val(j) < val(i)

\* The value the full-width search gives the root
FullRootScore(node, depth) ==
  IF node.kids = <<>> \/ depth = 0 THEN -Inf
  ELSE -FullNegamax(node.kids[FullRootMove(node, depth)], depth - 1)

\* ---------------------------------------------------------------------
\* The specification of the calls on NegamaxStrategy
\* ---------------------------------------------------------------------

\* A search that has not been asked yet
Asked(tree, depth, deadline) ==
  [op |-> "asked", tree |-> tree, depth |-> depth, deadline |-> deadline,
   move |-> NoMove, score |-> -Inf, pos |-> <<tree>>, bal |-> TRUE,
   cuts |-> 0, n |-> 0, done_move |-> NoMove, done_depth |-> 0]

InitNegamax ==
  /\ board = Setup(<<>>)
  /\ rule = RuleInit
  /\ game = GameInit
  /\ ret = "None"
  /\ call = NoCall
  /\ search \in {Asked(t, d, c) :
                   t \in {p \in Positions(MaxSearchDepth) : p.ev = 0},
                   d \in 0..MaxSearchDepth,
                   c \in (0..MaxClock) \cup {Never}}

\* strategy.find_best_move(game_state, time_limit, depth)
NegamaxFindBestMove ==
  /\ search.op = "asked"
  /\ \E r \in {FindBestMove(search.tree, search.depth)} :
       /\ search' = [search EXCEPT !.op = "find_best_move",
                                !.move = r.best_move,
                                !.score = r.best_score,
                                !.pos = r.st.pos,
                                !.bal = r.st.bal,
                                !.cuts = r.st.cuts,
                                !.n = r.st.n,
                                !.done_move = r.done_move,
                                !.done_depth = r.done_depth]
       /\ ret' = IF r.best_move = NoMove THEN "None" ELSE "Move"
  /\ UNCHANGED <<board, rule, game, call>>


\* strategy._negamax(game_state, depth, -inf, inf) asked on the position
NegamaxCall ==
  /\ search.op = "asked"
  /\ \E r \in {Negamax(SearchStart(search.tree), search.depth, -Inf, Inf)} :
       search' = [search EXCEPT !.op = "negamax", !.score = r.score,
                                !.pos = r.st.pos, !.bal = r.st.bal,
                                !.cuts = r.st.cuts, !.n = r.st.n]
  /\ ret' = "Score"
  /\ UNCHANGED <<board, rule, game, call>>

RECURSIVE BotNegamax(_, _, _, _)
RECURSIVE BotNegamaxLoop(_, _, _, _, _, _, _)

\* The move loop of ChessAI._negamax from the i-th valid move on, each move
\* made on a copy of the board
BotNegamaxLoop(node, depth, alpha, beta, i, best_value, best_move) ==
  IF i > Len(node.kids)
  THEN [value |-> best_value, move |-> best_move]
  ELSE LET value == -BotNegamax(node.kids[i], depth - 1, -beta, -alpha).value
           better == value > best_value
           raised == Max(alpha, value)
       IN IF raised >= beta
          THEN [value |-> IF better THEN value ELSE best_value,
                move |-> IF better THEN i ELSE best_move]
          ELSE BotNegamaxLoop(node, depth, raised, beta, i + 1,
                              IF better THEN value ELSE best_value,
                              IF better THEN i ELSE best_move)

\* ChessAI._negamax(board, depth, alpha, beta, color): at depth 0 the
\* material count of the board times color, which is the count seen by
\* the side to move (ev); no clock, no test of the game being over
BotNegamax(node, depth, alpha, beta) ==
  IF depth = 0 THEN [value |-> node.ev, move |-> NoMove]
  ELSE BotNegamaxLoop(node, depth, alpha, beta, 1, -Inf, NoMove)

\* ChessAI._negamax(board, depth, -inf, inf, 1) asked on the position
BotNegamaxCall ==
  /\ search.op = "asked"
  /\ \E r \in {BotNegamax(search.tree, search.depth, -Inf, Inf)} :
       search' = [search EXCEPT !.op = "bot_negamax", !.score = r.value,
                                !.move = r.move]
  /\ ret' = "Score"
  /\ UNCHANGED <<board, rule, game, call>>

NextNegamax ==
  \/ NegamaxFindBestMove
  \/ NegamaxCall
  \/ BotNegamaxCall

SpecNegamax == InitNegamax /\ [][NextNegamax]_vars

(***************************************************************************)
(* Properties of the search strategies.                                    *)
(***************************************************************************)
\* C11: find_best_move answers None only when the side to move has no legal
\* move at the root, and otherwise answers one of the root's legal moves,
\* whatever the time budget and the depth.
BestMoveIsLegalRootMove ==
  search.op = "find_best_move" =>
    IF search.tree.kids = <<>>
    THEN search.move = NoMove
    ELSE search.move \in 1..Len(search.tree.kids)

\* C12: when the budget is found spent after at least one depth was
\* searched in full, the move returned is the best move of the last depth
\* searched in full; nothing the interrupted depth computed decides it.
InterruptedDepthDiscarded ==
  (/\ search.op = "find_best_move"
   /\ search.n > search.deadline
   /\ search.done_depth >= 1) =>
    search.move = search.done_move

\* C13: when the budget is never spent, the root move and the score
\* find_best_move ends with at depth d are those of negamax over every move
\* of every position, with no window, at depth d.
AlphaBetaEqualsFullWidth ==
  (/\ search.op = "find_best_move"
   /\ search.n <= search.deadline
   /\ search.depth >= 1
   /\ search.tree.kids # <<>>) =>
    /\ search.move = FullRootMove(search.tree, search.depth)
    /\ search.score = FullRootScore(search.tree, search.depth)

DeepestIterationReplacesResult ==
  (/\ search.op = "find_best_move"
   /\ search.n <= search.deadline
   /\ search.depth >= 1
   /\ search.tree.kids # <<>>) =>
    /\ search.done_depth = search.depth
    /\ search.move = search.done_move

\* C24: at any remaining depth, 0 included, negamax asked on a position
\* whose side to move has no legal move answers minus the checkmate
\* constant if that side is in check and 0 if it is not: never the
\* evaluation of the position, never another value.
NoLegalMoveScoredMateOrStalemate ==
  (search.op \in {"negamax", "bot_negamax"} /\ search.tree.stuck) =>
    search.score = IF search.tree.chk THEN -CHECKMATE_SCORE
                                      ELSE STALEMATE_SCORE

\* The same of NegamaxStrategy._negamax alone while the budget lasts
StrategyScoresMateOrStalemateInTime ==
  (search.op = "negamax" /\ search.tree.stuck /\ search.n <= search.deadline) =>
    search.score = IF search.tree.chk THEN -CHECKMATE_SCORE
                                      ELSE STALEMATE_SCORE

\* ---------------------------------------------------------------------
\* MCTSStrategy (src/ai/strategies/mcts.py)
\*
\* A node of the search tree is named by the path of moves from the root;
\* nodes maps each path of a created node to its visits, its wins (counted
\* in halves, a draw being 0.5), its untried moves and the moves of its
\* children in the order they were appended.  random.choice is a choice
\* among all its candidates.  The budget test of the while loop reads the
\* clock, so after any number of iterations the loop may go on or end.
\* ---------------------------------------------------------------------

\* The largest number of iterations of the loop of find_best_move
MaxIterations == 7

\* The fixed-point unit UCB scores are computed in
UcbScale == 20000

\* math.log(n) for n = 1..8, in units of 1 / UcbScale^2
LnScaled ==
  <<0, 277258872, 439444915, 554517744, 643775165, 716703788, 778364060,
    831776617>>

RECURSIVE ISqrtIn(_, _, _)
ISqrtIn(x, lo, hi) ==
  IF lo = hi THEN lo
  ELSE LET mid == (lo + hi + 1) \div 2
       IN IF mid * mid <= x THEN ISqrtIn(x, mid, hi)
                            ELSE ISqrtIn(x, lo, mid - 1)

\* math.sqrt, rounded down
ISqrt(x) == ISqrtIn(x, 0, 46340)

\* The game trees of height at most h, evaluations left out
RECURSIVE Shapes(_)
Shapes(h) ==
  IF h = 0
  THEN {p \in Ended : p.ev = 0}
  ELSE {p \in Ended : p.ev = 0} \cup
       {[ev |-> 0, over |-> FALSE, chk |-> FALSE, stuck |-> FALSE, kids |-> k] :
          k \in UNION {[1..n -> Shapes(h - 1)] : n \in 1..MaxBranch}}

\* The position a path of moves leads to
RECURSIVE PositionAt(_, _)
PositionAt(tree, p) ==
  IF p = <<>> THEN tree ELSE PositionAt(tree.kids[Head(p)], Tail(p))

\* MCTSNode(game_state, parent, move)
MCTSNode(position) ==
  [visits |-> 0, wins |-> 0, untried |-> 1..Len(position.kids),
   children |-> <<>>]

\* MCTSNode.get_ucb_score(exploration_constant), exploration_constant
\* being math.sqrt(2)
GetUcbScore(node, parent_visits) ==
  IF node.visits = 0 THEN Inf
  ELSE (UcbScale * node.wins) \div (2 * node.visits)
       + ISqrt((2 * LnScaled[parent_visits]) \div node.visits)

\* _select_ucb always going to the first child
SelectUcbFirst(nodes, p) == Append(p, nodes[p].children[1])

\* _select_ucb: the first child with the largest UCB score
SelectUcb(nodes, p) ==
  LET ch == nodes[p].children
      u(i) == GetUcbScore(nodes[Append(p, ch[i])], nodes[p].visits)
      best == CHOOSE i \in 1..Len(ch) :
                /\ \A j \in 1..Len(ch) : u(j) <= u(i)
                /\ \A j \in 1..(i - 1) : u(j) < u(i)
  IN Append(p, ch[best])

\* _select, up to the node it expands or returns
RECURSIVE Select(_, _, _)
Select(nodes, tree, p) ==
  IF PositionAt(tree, p).over THEN [path |-> p, expand |-> FALSE]
  ELSE IF nodes[p].untried # {} THEN [path |-> p, expand |-> TRUE]
  ELSE IF nodes[p].children = <<>> THEN [path |-> p, expand |-> FALSE]
  ELSE Select(nodes, tree, SelectUcb(nodes, p))

\* _expand with move m chosen among the untried moves of the node at p
Expand(nodes, tree, p, m) ==
  [q \in DOMAIN nodes \cup {Append(p, m)} |->
     IF q = Append(p, m) THEN MCTSNode(PositionAt(tree, q))
     ELSE IF q = p THEN [nodes[p] EXCEPT !.untried = @ \ {m},
                                         !.children = Append(@, m)]
     ELSE nodes[q]]

\* _simulate: the results, in halves, the random playouts from a position
\* can end with; turned tells that the side to move is not the one the
\* playout started with
RECURSIVE Simulate(_, _)
Simulate(position, turned) ==
  IF position.over \/ position.kids = <<>>
  THEN {IF position.chk /\ position.kids = <<>>
        THEN (IF turned THEN 2 ELSE 0)
        ELSE 1}
  ELSE UNION {Simulate(position.kids[i], ~turned) :
                i \in 1..Len(position.kids)}

\* _backpropagate that stops below the root
BackpropagateBelowRoot(nodes, p, result) ==
  [q \in DOMAIN nodes |->
     IF q # <<>> /\ Len(q) <= Len(p) /\ q = SubSeq(p, 1, Len(q))
     THEN [nodes[q] EXCEPT
             !.visits = @ + 1,
             !.wins = @ + (IF (Len(p) - Len(q)) % 2 = 0 THEN result
                                                       ELSE 2 - result)]
     ELSE nodes[q]]

\* _backpropagate from the node at p with a result in halves
Backpropagate(nodes, p, result) ==
  [q \in DOMAIN nodes |->
     IF Len(q) <= Len(p) /\ q = SubSeq(p, 1, Len(q))
     THEN [nodes[q] EXCEPT
             !.visits = @ + 1,
             !.wins = @ + (IF (Len(p) - Len(q)) % 2 = 0 THEN result
                                                       ELSE 2 - result)]
     ELSE nodes[q]]

\* The loop of ChessAI._mcts that walks down: while the node has no untried
\* move and has children, go to the child _select_uct picks (read as the
\* child with the largest uct_value)
RECURSIVE BotSelect(_, _)
BotSelect(nodes, p) ==
  IF nodes[p].untried = {} /\ nodes[p].children # <<>>
  THEN BotSelect(nodes, SelectUcb(nodes, p))
  ELSE p

\* The loop of ChessAI._mcts that walks back up from the node at p:
\* visits and wins of the node and of every ancestor take the same result
BotBackpropagate(nodes, p, result) ==
  [q \in DOMAIN nodes |->
     IF Len(q) <= Len(p) /\ q = SubSeq(p, 1, Len(q))
     THEN [nodes[q] EXCEPT !.visits = @ + 1, !.wins = @ + result]
     ELSE nodes[q]]

\* The child max(children, key = visits) picks by the greatest win rate
BestChildByWinRate(nodes) ==
  LET ch == nodes[<<>>].children
      n(i) == nodes[<<ch[i]>>]
  IN ch[CHOOSE i \in 1..Len(ch) :
          /\ \A j \in 1..Len(ch) :
               n(j).wins * n(i).visits <= n(i).wins * n(j).visits
          /\ \A j \in 1..(i - 1) :
               n(j).wins * n(i).visits < n(i).wins * n(j).visits]

\* max(self.root.children, key=lambda c: c.visits).move: the move of the
\* first child with the most visits
BestChild(nodes) ==
  LET ch == nodes[<<>>].children
      n(i) == nodes[<<ch[i]>>]
  IN ch[CHOOSE i \in 1..Len(ch) :
          /\ \A j \in 1..Len(ch) : n(j).visits <= n(i).visits
          /\ \A j \in 1..(i - 1) : n(j).visits < n(i).visits]

\* ---------------------------------------------------------------------
\* The specification of the calls on MCTSStrategy
\* ---------------------------------------------------------------------
\* What the last iteration did: the node it simulated from, whether it
\* made that node, and the result of the simulation in halves
NoIteration == [path |-> <<>>, expanded |-> FALSE, result |-> 1]

InitMcts ==
  /\ board = Setup(<<>>)
  /\ rule = RuleInit
  /\ game = GameInit
  /\ ret = "None"
  /\ call = NoCall
  /\ search \in {[op |-> "asked", tree |-> t, nodes |-> <<>>, iters |-> 0,
                  move |-> NoMove, last |-> NoIteration] :
                   t \in Shapes(MaxSearchDepth)}

\* find_best_move up to the loop: the root node is made
MctsStart ==
  /\ search.op = "asked"
  /\ search' = [search EXCEPT !.op = "searching",
                              !.nodes = (<<>> :> MCTSNode(search.tree))]
  /\ UNCHANGED <<board, rule, game, ret, call>>

\* One iteration of the loop: the budget is not spent; select (and
\* expand), simulate, backpropagate
MctsIterate ==
  /\ search.op = "searching"
  /\ search.iters < MaxIterations
  /\ \E s \in {Select(search.nodes, search.tree, <<>>)} :
       \E m \in IF s.expand THEN search.nodes[s.path].untried ELSE {NoMove} :
         \E p \in {IF s.expand THEN Append(s.path, m) ELSE s.path} :
           \E grown \in {IF s.expand
                         THEN Expand(search.nodes, search.tree, s.path, m)
                         ELSE search.nodes} :
             \E result \in Simulate(PositionAt(search.tree, p), FALSE) :
               search' = [search EXCEPT
                            !.nodes = Backpropagate(grown, p, result),
                            !.iters = @ + 1,
                            !.last = [path |-> p, expanded |-> s.expand,
                                      result |-> result]]
  /\ UNCHANGED <<board, rule, game, ret, call>>

\* One iteration of the loop of ChessAI._mcts, the first one with the
\* making of the root: selection, expansion, simulation, backpropagation
BotMctsIterate ==
  /\ search.op \in {"asked", "bot_searching"}
  /\ search.iters < MaxIterations
  /\ \E nodes \in {IF search.op = "asked"
                    THEN (<<>> :> MCTSNode(search.tree)) ELSE search.nodes} :
       \E at \in {BotSelect(nodes, <<>>)} :
         \E m \in IF nodes[at].untried # {} THEN nodes[at].untried
                                           ELSE {NoMove} :
           \E p \in {IF m # NoMove THEN Append(at, m) ELSE at} :
             \E grown \in {IF m # NoMove
                           THEN Expand(nodes, search.tree, at, m)
                           ELSE nodes} :
               \E result \in Simulate(PositionAt(search.tree, p), FALSE) :
                 search' = [search EXCEPT
                              !.op = "bot_searching",
                              !.nodes = BotBackpropagate(grown, p, result),
                              !.iters = @ + 1,
                              !.last = [path |-> p, expanded |-> m # NoMove,
                                        result |-> result]]
  /\ UNCHANGED <<board, rule, game, ret, call>>

\* The budget is spent: the loop ends and find_best_move returns
MctsReturn ==
  /\ search.op = "searching"
  /\ search' = [search EXCEPT
                  !.op = "find_best_move",
                  !.move = IF search.nodes[<<>>].children = <<>>
                           THEN NoMove
                           ELSE BestChild(search.nodes)]
  /\ ret' = IF search.nodes[<<>>].children = <<>> THEN "None" ELSE "Move"
  /\ UNCHANGED <<board, rule, game, call>>

NextMcts == MctsStart \/ MctsIterate \/ MctsReturn \/ BotMctsIterate

SpecMcts == InitMcts /\ [][NextMcts]_vars

\* C15: MCTS returns the move of a root child whose visit count is the
\* largest among the root's children, whatever the win rates.
MostVisitedChildReturned ==
  (search.op = "find_best_move" /\ search.nodes[<<>>].children # <<>>) =>
    /\ \E i \in 1..Len(search.nodes[<<>>].children) :
         search.nodes[<<>>].children[i] = search.move
    /\ \A i \in 1..Len(search.nodes[<<>>].children) :
         search.nodes[<<search.nodes[<<>>].children[i]>>].visits
           <= search.nodes[<<search.move>>].visits

\* The move returned is that of a child with a smaller win rate than
\* another child of the root
LowerWinRateReturned ==
  /\ search.op = "find_best_move"
  /\ search.move # NoMove
  /\ \E i \in 1..Len(search.nodes[<<>>].children) :
       LET c == search.nodes[<<search.nodes[<<>>].children[i]>>]
           b == search.nodes[<<search.move>>]
       IN c.wins * b.visits > b.wins * c.visits

\* The node at q is the node at p or one of its ancestors
OnPathToRoot(q, p) == Len(q) <= Len(p) /\ q = SubSeq(p, 1, Len(q))

\* The statistics of the node at q before an iteration that may have made it
Before(nodes, q) ==
  IF q \in DOMAIN nodes THEN nodes[q] ELSE [visits |-> 0, wins |-> 0]

\* C25: an iteration adds exactly one visit to every node from the node it
\* simulated from up to the root and to no other node; it adds the result
\* r of the simulation to the wins of that node, 1 - r to those of its
\* parent, r to those of the grandparent, and so on in turn up to the root.
BackpropagationAlternates ==
  [][search'.op \in {"searching", "bot_searching"} /\ search'.iters > search.iters
       => \A q \in DOMAIN search'.nodes :
            LET old == Before(search.nodes, q)
                new == search'.nodes[q]
                p == search'.last.path
                r == search'.last.result
            IN IF OnPathToRoot(q, p)
               THEN /\ new.visits = old.visits + 1
                    /\ new.wins = old.wins +
                         (IF (Len(p) - Len(q)) % 2 = 0 THEN r ELSE 2 - r)
               ELSE /\ new.visits = old.visits
                    /\ new.wins = old.wins]_vars

\* The same of the iterations of MCTSStrategy alone
StrategyBackpropagationAlternates ==
  [][search'.op = "searching" /\ search'.iters > search.iters
       => \A q \in DOMAIN search'.nodes :
            LET old == Before(search.nodes, q)
                new == search'.nodes[q]
                p == search'.last.path
                r == search'.last.result
            IN IF OnPathToRoot(q, p)
               THEN /\ new.visits = old.visits + 1
                    /\ new.wins = old.wins +
                         (IF (Len(p) - Len(q)) % 2 = 0 THEN r ELSE 2 - r)
               ELSE /\ new.visits = old.visits
                    /\ new.wins = old.wins]_vars

\* The node the selection of the last iteration ended at
SelectedPath(last) ==
  IF last.expanded THEN SubSeq(last.path, 1, Len(last.path) - 1)
  ELSE last.path

\* The UCB score the child by move m of the node at q had
ChildUcb(nodes, q, m) == GetUcbScore(nodes[Append(q, m)], nodes[q].visits)

\* C26: in an iteration the selection goes down only through nodes whose
\* game is not over and that have no untried move, each time to a child
\* whose UCB1 score is the largest among the children (a child never
\* visited scoring infinity); the iteration adds at most one node, and no
\* move of a node is ever expanded into two children.
SelectionFollowsBestUcb ==
  /\ [](search.op \in {"searching", "find_best_move"} =>
          \A q \in DOMAIN search.nodes :
            LET ch == search.nodes[q].children
            IN /\ \A i, j \in 1..Len(ch) : ch[i] = ch[j] => i = j
               /\ \A i \in 1..Len(ch) : ch[i] \notin search.nodes[q].untried)
  /\ [][search'.op = "searching" /\ search'.iters > search.iters
          => LET sel == SelectedPath(search'.last)
             IN /\ Cardinality(DOMAIN search'.nodes)
                     <= Cardinality(DOMAIN search.nodes) + 1
                /\ \A k \in 0..(Len(sel) - 1) :
                     LET q == SubSeq(sel, 1, k)
                     IN /\ ~PositionAt(search.tree, q).over
                        /\ search.nodes[q].untried = {}
                        /\ \A i \in 1..Len(search.nodes[q].children) :
                             ChildUcb(search.nodes, q,
                                      search.nodes[q].children[i])
                               <= ChildUcb(search.nodes, q, sel[k + 1])]_vars

\* The selection of the last iteration went down from the root to the
\* second of its two children, whose UCB score was then the larger
SelectionChoseSecondChild ==
  /\ search.op = "searching"
  /\ Len(SelectedPath(search.last)) >= 1
  /\ Len(search.nodes[<<>>].children) = 2
  /\ SelectedPath(search.last)[1] = search.nodes[<<>>].children[2]

(***************************************************************************)
(* The calls on a Board and on its pieces.                                 *)
(***************************************************************************)
\* The largest number of calls of place_piece, remove_piece and move_to;
\* they are made before the first move and count as plies
MaxEdits == 1

\* Kings on e1 and e8, a white pawn on a7 and a black pawn on h2, each one
\* step from its last rank
PosPromotion ==
  <<<<King, White, At(4, 1), TRUE>>, <<King, Black, At(4, 8), TRUE>>,
    <<Pawn, White, At(0, 7), TRUE>>, <<Pawn, Black, At(7, 2), TRUE>>>>

\* A white pawn on g7 that can take the rook on h8 and promote
PosPromotionCapture ==
  <<<<King, White, At(4, 1), TRUE>>, <<King, Black, At(4, 8), TRUE>>,
    <<Pawn, White, At(6, 7), TRUE>>, <<Rook, Black, At(7, 8), TRUE>>>>

BoardPositions == {PosPromotion, PosPromotionCapture, PosEnPassant, PosCastle}

\* The promotion kinds a caller hands in
PromotionKinds == {Queen, Knight}

\* The rows and columns asked of get_square, the first call on the board
Coordinates == {-1, 0, 8}

\* The squares asked of place_piece, remove_piece
EditSquares == {At(4, 1), At(3, 3)}

\* Board.get_square(row, col): ok = FALSE where it raises ValueError
GetSquare(B, row, col) ==
  IF ~(0 <= row /\ row < 8 /\ 0 <= col /\ col < 8)
  THEN [ok |-> FALSE, square |-> NoSq]
  ELSE [ok |-> TRUE, square |-> S(row, col)]

\* Board.place_piece(piece, square) with a piece just made: ok = FALSE
\* where it raises ValueError
BoardPlacePiece(B, kind, color, s) ==
  IF IsOccupied(B, s) THEN [b |-> B, ok |-> FALSE]
  ELSE LET p == FreshId(B)
           B1 == SquarePlacePiece(CreatePiece(B, kind, color), s, p)
       IN [b |-> [B1 EXCEPT !.reg = B1.reg \cup {p},
                            !.kings = [c \in Colors |->
                                         IF kind = King /\ c = color THEN p
                                         ELSE B1.kings[c]]],
           ok |-> TRUE]

\* Board.update_piece_position(piece, old_square, new_square): the grid
\* follows the piece; a piece standing on the new square is taken
UpdatePiecePosition(B, p, old, new) ==
  LET taken == B.sq[new]
      B1 == IF taken # NoPiece /\ taken # p
            THEN [B EXCEPT !.pc[taken].pos = NoSq, !.reg = B.reg \ {taken}]
            ELSE B
  IN [B1 EXCEPT !.sq = [s \in Sq |-> IF s = new THEN p
                                     ELSE IF s = old THEN NoPiece
                                     ELSE B1.sq[s]]]

\* Piece.move_to(new_square, board): ok = FALSE where it raises ValueError
MoveTo(B, p, new) ==
  IF HasFriendlyPiece(B, new, B.pc[p].color) THEN [b |-> B, ok |-> FALSE]
  ELSE [b |-> UpdatePiecePosition(
                [B EXCEPT !.pc[p].pos = new, !.pc[p].moved = TRUE],
                p, B.pc[p].pos, new),
        ok |-> TRUE]

\* King.move_to(new_square, board): a step of two columns first moves the
\* piece on the corner with its move_to; ok = FALSE where a call raises.
\* (No king stands on a corner in the positions explored, so the piece on
\* the corner moves with Piece.move_to.)
KingMoveTo(B, p, new) ==
  LET old_col == Col(B.pc[p].pos)
      new_col == Col(new)
      row == Row(B.pc[p].pos)
      rook_old == S(row, IF new_col > old_col THEN 7 ELSE 0)
      rook_new == S(row, IF new_col > old_col THEN 5 ELSE 3)
  IN IF Abs(new_col - old_col) # 2 THEN MoveTo(B, p, new)
     ELSE IF B.sq[rook_old] = NoPiece THEN [b |-> B, ok |-> FALSE]
     ELSE CHOOSE r \in
            {IF ~r1.ok THEN r1 ELSE MoveTo(r1.b, p, new) :
               r1 \in {MoveTo(B, B.sq[rook_old], rook_new)}} : TRUE

\* piece.move_to(new_square, board), dispatched on the kind
PieceMoveTo(B, p, new) ==
  IF B.pc[p].kind = King THEN KingMoveTo(B, p, new) ELSE MoveTo(B, p, new)

\* The pieces standing on the grid
OnGrid(B) == {B.sq[s] : s \in {x \in Sq : B.sq[x] # NoPiece}}

\* The moves handed to Board.make_move: those the pieces generate, a
\* promotion with no kind and with each of the kinds
BoardRequests(B) ==
  UNION {IF m.is_promotion /\ HasFreshId(B)
         THEN {[m EXCEPT !.promotion = k] : k \in PromotionKinds \cup {NoKind}}
         ELSE {m} :
           m \in UNION {GetPossibleMoves(B, p) : p \in OnGrid(B)}}

\* The last call on the board: the operation, the position history
\* make_move met, the move handed in or returned, the coordinates asked,
\* the moves made and undone and the other calls so far
NoBoardCall ==
  [op |-> "init", pre |-> {}, move |-> <<>>, row |-> 0, col |-> 0,
   n |-> 0, u |-> 0, e |-> 0]

InitBoard ==
  /\ \E pl \in BoardPositions : board = Setup(pl)
  /\ rule = RuleInit
  /\ game = GameInit
  /\ ret = "None"
  /\ call = NoBoardCall
  /\ search = NoSearch

\* board.make_move(m)
BoardCallMakeMove(m) ==
  /\ call.n + call.e < MaxPlies
  /\ board' = BoardMakeMove(board, m)
  /\ ret' = "None"
  /\ call' = [call EXCEPT !.op = "make_move", !.pre = board.ph, !.move = <<m>>, !.row = 0, !.col = 0,
                          !.n = @ + 1]
  /\ UNCHANGED <<rule, game, search>>

\* board.undo_move()
BoardCallUndoMove ==
  /\ IF board.mh = <<>>
     THEN /\ UNCHANGED board
          /\ ret' = "None"
          /\ call' = [call EXCEPT !.op = "undo_move", !.pre = {},
                                  !.move = <<>>, !.row = 0, !.col = 0]
     ELSE /\ board' = BoardUndoMove(board)
          /\ ret' = "Move"
          /\ call' = [call EXCEPT !.op = "undo_move", !.pre = {},
                                  !.move = <<LastMove(board)>>, !.row = 0,
                                  !.col = 0, !.u = @ + 1]
  /\ UNCHANGED <<rule, game, search>>

\* board.get_square(row, col)
BoardCallGetSquare(row, col) ==
  /\ call.op = "init"
  /\ ret' = IF GetSquare(board, row, col).ok THEN "Square" ELSE "ValueError"
  /\ call' = [call EXCEPT !.op = "get_square", !.pre = {}, !.move = <<>>,
                          !.row = row, !.col = col]
  /\ UNCHANGED <<board, rule, game, search>>

\* board.place_piece(piece, square) with a piece just made
BoardCallPlacePiece(kind, color, s) ==
  /\ call.e < MaxEdits /\ call.n = 0
  /\ HasFreshId(board)
  /\ \E r \in {BoardPlacePiece(board, kind, color, s)} :
       /\ board' = r.b
       /\ ret' = IF r.ok THEN "None" ELSE "ValueError"
  /\ call' = [call EXCEPT !.op = "place_piece", !.pre = {}, !.move = <<>>,
                          !.row = 0, !.col = 0, !.e = @ + 1]
  /\ UNCHANGED <<rule, game, search>>

\* board.remove_piece(square)
BoardCallRemovePiece(s) ==
  /\ call.e < MaxEdits /\ call.n = 0
  /\ IF IsEmpty(board, s)
     THEN UNCHANGED board /\ ret' = "None"
     ELSE \E r \in {BoardRemovePiece(board, board.sq[s])} :
            /\ board' = r.b
            /\ ret' = IF r.ok THEN "Piece" ELSE "ValueError"
  /\ call' = [call EXCEPT !.op = "remove_piece", !.pre = {}, !.move = <<>>,
                          !.row = 0, !.col = 0, !.e = @ + 1]
  /\ UNCHANGED <<rule, game, search>>

\* piece.move_to(new_square, board)
PieceCallMoveTo(p, s) ==
  /\ call.e < MaxEdits /\ call.n = 0
  /\ \E r \in {PieceMoveTo(board, p, s)} :
       /\ board' = r.b
       /\ ret' = IF r.ok THEN "None" ELSE "ValueError"
  /\ call' = [call EXCEPT !.op = "move_to", !.pre = {}, !.move = <<>>,
                          !.row = 0, !.col = 0, !.e = @ + 1]
  /\ UNCHANGED <<rule, game, search>>

NextBoard ==
  \/ \E m \in BoardRequests(board) : BoardCallMakeMove(m)
  \/ BoardCallUndoMove
  \/ \E row \in Coordinates, col \in Coordinates : BoardCallGetSquare(row, col)
  \/ \E kind \in {Knight}, color \in Colors, s \in EditSquares :
       BoardCallPlacePiece(kind, color, s)
  \/ \E s \in EditSquares : BoardCallRemovePiece(s)
  \/ \E p \in OnGrid(board) :
       \E s \in PossibleEnds(board, p) \cup EditSquares : PieceCallMoveTo(p, s)

SpecBoard == InitBoard /\ [][NextBoard]_vars

(***************************************************************************)
(* Properties of the calls on a Board.                                     *)
(***************************************************************************)
\* C16: a move of a pawn to the last rank of its colour is a promotion, and
\* once it is made the end square holds a piece of the pawn's colour, a
\* Queen when no kind was handed in and the kind handed in otherwise, and
\* the pawn is off the board.
PromotionReplacesPawn ==
  (/\ call.op = "make_move"
   /\ board.pc[call.move[1].piece].kind = Pawn
   /\ Row(call.move[1].to) = PromotionRow(board.pc[call.move[1].piece].color))
  =>
    /\ call.move[1].is_promotion
    /\ IsOccupied(board, call.move[1].to)
    /\ board.pc[board.sq[call.move[1].to]].kind =
         (IF call.move[1].promotion = NoKind THEN Queen
          ELSE call.move[1].promotion)
    /\ board.pc[board.sq[call.move[1].to]].color =
         board.pc[call.move[1].piece].color
    /\ board.pc[call.move[1].piece].pos = NoSq

\* C17: a request that names a row or column outside 0..7 is answered with
\* a failure value (False or None), not with an exception, and the board is
\* left as it was.
OutOfRangeAnsweredWithoutRaising ==
  [][(call'.op = "get_square" /\ ~IsValidPosition(call'.row, call'.col)) =>
       (ret' \in {"False", "None"} /\ board' = board)]_vars

\* The two moves made are undone
TwoMovesUndone ==
  /\ call.op = "undo_move"
  /\ ret = "Move"
  /\ call.u = 2
  /\ board.mh = <<>>

\* C18: undo_move on an empty history returns None and changes nothing; on
\* any other it returns the last move of the history and takes it off, and
\* when as many moves are undone as were made the history is empty.
UndoIsLastInFirstOut ==
  /\ [](call.n = call.u => board.mh = <<>>)
  /\ [][call'.op = "undo_move" =>
          IF board.mh = <<>>
          THEN ret' = "None" /\ board' = board
          ELSE /\ ret' = "Move"
               /\ call'.move = <<board.mh[Len(board.mh)]>>
               /\ board'.mh = SubSeq(board.mh, 1, Len(board.mh) - 1)]_vars

\* A pawn has taken a piece and been replaced by a piece of the kind asked
PromotedWithCapture ==
  /\ call.op = "make_move"
  /\ call.move[1].promotion # NoKind
  /\ call.move[1].cap # NoPiece
  /\ board.pc[call.move[1].cap].pos = NoSq
  /\ board.pc[call.move[1].piece].pos = NoSq
  /\ IsOccupied(board, call.move[1].to)

\* C19: in every state reached by placing, removing, moving, capturing,
\* castling, en passant and promoting, a square holds a piece exactly when
\* that piece records the square as its position; so no two squares hold
\* one piece, and a piece taken or replaced records no position.
GridAndPiecesAgree ==
  /\ \A s \in Sq : board.sq[s] # NoPiece => board.pc[board.sq[s]].pos = s
  /\ \A p \in Ids : board.pc[p].pos # NoSq => board.sq[board.pc[p].pos] = p

\* C20: after make_move(m) followed at once by undo_move() the position
\* history of the board is what it was before the make_move.
UndoRestoresPositionHistory ==
  [][(call.op = "make_move" /\ call'.op = "undo_move") =>
       board'.ph = call.pre]_vars

(***************************************************************************)
(* The fifty-move counter.                                                 *)
(***************************************************************************)
\* A move that is neither a pawn move nor a capture, read off the board it
\* was asked on: the end square is empty and the mover is no pawn (an
\* en-passant capture is a pawn move)
QuietRequest(B, from, to) ==
  B.pc[B.sq[from]].kind # Pawn /\ B.sq[to] = NoPiece

\* The same of a move of the board's history
QuietMove(B, m) == B.pc[m.piece].kind # Pawn /\ m.cap = NoPiece

\* The number of most recent moves of the history h that are quiet
TrailingQuiet(B, h) ==
  CHOOSE k \in 0..Len(h) :
    /\ \A i \in (Len(h) - k + 1)..Len(h) : QuietMove(B, h[i])
    /\ k = Len(h) \/ ~QuietMove(B, h[Len(h) - k])

\* C21: after any sequence of accepted moves the half-move clock is the
\* number of most recent accepted moves that were neither a pawn move nor a
\* capture: a pawn move or a capture sets it to 0, any other accepted move
\* adds exactly 1.
HalfMoveClockCountsQuietMoves ==
  /\ [](game.half_move_clock = TrailingQuiet(board, game.move_history))
  /\ [][(call'.op = "make_move" /\ call'.why = "valid")
          => game'.half_move_clock =
               IF QuietRequest(board, call'.from, call'.to)
               THEN game.half_move_clock + 1 ELSE 0]_vars

\* A capture by a piece that is no pawn has set a clock back that a quiet
\* move had raised
CaptureResetClock ==
  /\ call.op = "make_move" /\ call.why = "valid"
  /\ Len(game.move_history) = 2
  /\ QuietMove(board, game.move_history[1])
  /\ game.move_history[2].cap # NoPiece
  /\ board.pc[game.move_history[2].piece].kind # Pawn
  /\ game.half_move_clock = 0

\* The fifty-move counter of a GameRule counts the same way over the moves
\* is_valid_move let through
FiftyMoveCounterCountsQuietMoves ==
  /\ [](rule.fifty_move_counter = TrailingQuiet(board, board.mh))
  /\ [][(call'.op = "make_move" /\ call'.why = "valid")
          => rule'.fifty_move_counter =
               IF QuietRequest(board, call'.from, call'.to)
               THEN rule.fifty_move_counter + 1 ELSE 0]_vars

(***************************************************************************)
(* Move ordering (src/ai/strategies/strategies.py).  A move is what        *)
(* _sort_moves reads of it: the kind of the piece it takes (NoKind: none), *)
(* the kind of the piece that moves, whether it promotes and whether       *)
(* game_state.causes_check(move) holds.  The list is in generation order.  *)
(***************************************************************************)
MaxMoves == 3

PROMOTION_BONUS == 800
CHECK_BONUS == 300

\* AIStrategy._get_piece_value(piece_type), is_endgame left at its default;
\* the keys 'PAWN' .. 'KING' are read as the piece types they name
GetPieceValue(kind) ==
  IF kind = Pawn THEN 100
  ELSE IF kind = Knight THEN 320
  ELSE IF kind = Bishop THEN 330
  ELSE IF kind = Rook THEN 500
  ELSE IF kind = Queen THEN 900
  ELSE IF kind = King THEN 20000
  ELSE 0

\* move_value(move) of _sort_moves
MoveValue(m) ==
  (IF m.victim # NoKind
   THEN GetPieceValue(m.victim) - GetPieceValue(m.mover) \div 10 ELSE 0)
  + (IF m.promo THEN PROMOTION_BONUS ELSE 0)
  + (IF m.check THEN CHECK_BONUS ELSE 0)

\* sorted(..., reverse=True) taking the i-th move into the order built so
\* far: behind every move whose value is not smaller (the sort is stable)
RECURSIVE InsertByValue(_, _, _)
InsertByValue(moves, order, i) ==
  IF order = <<>> THEN <<i>>
  ELSE IF MoveValue(moves[Head(order)]) >= MoveValue(moves[i])
  THEN <<Head(order)>> \o InsertByValue(moves, Tail(order), i)
  ELSE <<i>> \o order

RECURSIVE SortedUpTo(_, _)
SortedUpTo(moves, n) ==
  IF n = 0 THEN <<>>
  ELSE InsertByValue(moves, SortedUpTo(moves, n - 1), n)

\* AIStrategy._sort_moves(moves, game_state): the places of the moves of
\* the list in the list returned
SortMoves(moves) == SortedUpTo(moves, Len(moves))

\* The moves a list is made of
SortedMoves ==
  {[victim |-> v, mover |-> a, promo |-> p, check |-> c] :
     v \in {NoKind, Pawn, Knight, Rook, Queen},
     a \in {Pawn, Knight, Queen, King}, p \in BOOLEAN, c \in BOOLEAN}

MoveLists ==
  UNION {[1..n -> {m \in SortedMoves : m.promo => m.mover = Pawn}] :
           n \in 0..MaxMoves}

InitSort ==
  /\ board = Setup(<<>>)
  /\ rule = RuleInit
  /\ game = GameInit
  /\ ret = "None"
  /\ call = NoCall
  /\ search \in {[op |-> "sort_asked", moves |-> ms, order |-> <<>>] :
                   ms \in MoveLists}

\* self._sort_moves(moves, game_state)
SortMovesCall ==
  /\ search.op = "sort_asked"
  /\ search' = [search EXCEPT !.op = "sort_moves",
                             !.order = SortMoves(search.moves)]
  /\ ret' = "Moves"
  /\ UNCHANGED <<board, rule, game, call>>

NextSort == SortMovesCall

SpecSort == InitSort /\ [][NextSort]_vars

\* The class the ordering gives a move: capture, promotion that takes
\* nothing, check that neither takes nor promotes, the rest
MoveClass(m) ==
  IF m.victim # NoKind THEN 0
  ELSE IF m.promo THEN 1
  ELSE IF m.check THEN 2
  ELSE 3

\* Victim value minus attacker value of a capture
VictimMinusAttacker(m) == GetPieceValue(m.victim) - GetPieceValue(m.mover)

\* Two moves the ordering has no reason to tell apart
SamePriority(m1, m2) ==
  /\ MoveClass(m1) = MoveClass(m2)
  /\ MoveClass(m1) = 0 => VictimMinusAttacker(m1) = VictimMinusAttacker(m2)

\* C23: in the list handed to negamax every capture comes before every
\* promotion that takes nothing, those before every check that neither
\* takes nor promotes, those before the rest; of two captures the one with
\* the larger victim value minus attacker value comes first, and moves of
\* equal priority stay in generation order.
MovesOrderedCapturesPromotionsChecks ==
  search.op = "sort_moves" =>
    \A i \in 1..Len(search.order) : \A j \in (i + 1)..Len(search.order) :
      LET a == search.moves[search.order[i]]
          b == search.moves[search.order[j]]
      IN /\ MoveClass(a) <= MoveClass(b)
         /\ (MoveClass(a) = 0 /\ MoveClass(b) = 0)
              => VictimMinusAttacker(a) >= VictimMinusAttacker(b)
         /\ SamePriority(a, b) => search.order[i] < search.order[j]

(***************************************************************************)
(* MCTSStrategy._simulate step by step (src/ai/strategies/mcts.py).  The   *)
(* playout runs on a game of three positions: from position 1 the only     *)
(* move leads to 2, from 2 the moves lead to 1 and to 3, at 3 the side to  *)
(* move has no legal move.  Whether it is in check there, whether the game *)
(* is flagged over there, and whether it is flagged over at 1 (a draw by   *)
(* rule) vary.  A game state is the position and the side to move.         *)
(***************************************************************************)
\* max_moves = 100
MAX_SIMULATION_MOVES == 100

\* The positions the legal moves of a position lead to
ArenaMoves(at) ==
  IF at = 1 THEN {2} ELSE IF at = 2 THEN {1, 3} ELSE {}

\* game_state.is_game_over
ArenaIsGameOver(cfg, at) ==
  (at = 3 /\ cfg.over_mate) \/ (at = 1 /\ cfg.over_draw)

\* game_state.is_checkmate(): no legal move and in check
ArenaIsCheckmate(cfg, at) == ArenaMoves(at) = {} /\ cfg.chk

InitSimulate ==
  /\ board = Setup(<<>>)
  /\ rule = RuleInit
  /\ game = GameInit
  /\ ret = "None"
  /\ call = NoCall
  /\ search \in {[op |-> "simulate_asked",
                  cfg |-> [chk |-> c, over_mate |-> om, over_draw |-> od],
                  game_state |-> [at |-> a, current_player |-> s],
                  temp_state |-> [at |-> a, current_player |-> s],
                  start |-> [at |-> a, current_player |-> s],
                  max_moves |-> 0, plies |-> 0, result |-> 1] :
                   c \in BOOLEAN, om \in BOOLEAN, od \in BOOLEAN,
                   a \in 1..3, s \in Colors}

\* _simulate up to the loop: temp_state = game_state.clone(), max_moves
SimulateStart ==
  /\ search.op = "simulate_asked"
  /\ search' = [search EXCEPT !.op = "simulating",
                              !.temp_state = search.game_state,
                              !.max_moves = MAX_SIMULATION_MOVES]
  /\ UNCHANGED <<board, rule, game, ret, call>>

\* One turn of the loop played on the state of the node itself
SimulateStepOnNode ==
  /\ search.op = "simulating"
  /\ ~ArenaIsGameOver(search.cfg, search.temp_state.at)
  /\ search.max_moves > 0
  /\ \E move \in ArenaMoves(search.temp_state.at) :
       \E next \in {[at |-> move,
                     current_player |->
                       Opposite(search.temp_state.current_player)]} :
         search' = [search EXCEPT !.temp_state = next,
                                  !.game_state = next,
                                  !.max_moves = @ - 1,
                                  !.plies = @ + 1]
  /\ UNCHANGED <<board, rule, game, ret, call>>

\* One turn of the loop: the game is not over, max_moves is not used up,
\* there is a legal move; one of them is made on temp_state
SimulateStep ==
  /\ search.op = "simulating"
  /\ ~ArenaIsGameOver(search.cfg, search.temp_state.at)
  /\ search.max_moves > 0
  /\ \E move \in ArenaMoves(search.temp_state.at) :
       \E next \in {[at |-> move,
                     current_player |->
                       Opposite(search.temp_state.current_player)]} :
         search' = [search EXCEPT !.temp_state = next,
                                  !.max_moves = @ - 1,
                                  !.plies = @ + 1]
  /\ UNCHANGED <<board, rule, game, ret, call>>

\* The loop is left (game over, max_moves used up or no legal move) and
\* the result is returned, in halves
SimulateReturn ==
  /\ search.op = "simulating"
  /\ \/ ArenaIsGameOver(search.cfg, search.temp_state.at)
     \/ search.max_moves <= 0
     \/ ArenaMoves(search.temp_state.at) = {}
  /\ search' = [search EXCEPT
       !.op = "simulate",
       !.result =
         IF ArenaIsCheckmate(search.cfg, search.temp_state.at)
         THEN (IF search.temp_state.current_player
                    # search.game_state.current_player
               THEN 2 ELSE 0)
         ELSE 1]
  /\ ret' = "Result"
  /\ UNCHANGED <<board, rule, game, call>>

NextSimulate == SimulateStart \/ SimulateStep \/ SimulateReturn

SpecSimulate == InitSimulate /\ [][NextSimulate]_vars

\* C27: a simulation ends after at most 100 plies or at the first position
\* at which the game is over, leaves the state of the node it started from
\* as it was, and answers 1.0 if it ended in a checkmate of the side that
\* was not to move at its start, 0.0 if the side to move at its start was
\* checkmated, and 0.5 in every other case.
SimulationBoundedAndScored ==
  /\ [](search.op \in {"simulating", "simulate"} =>
          /\ search.plies <= MAX_SIMULATION_MOVES
          /\ search.game_state = search.start)
  /\ [](search.op = "simulate" =>
          search.result =
            IF ArenaIsCheckmate(search.cfg, search.temp_state.at)
            THEN (IF search.plies % 2 = 1 THEN 2 ELSE 0)
            ELSE 1)
  /\ [][search'.plies > search.plies
          => ~ArenaIsGameOver(search.cfg, search.temp_state.at)]_vars

\* A simulation stopped by the limit of 100 plies answered a draw, and one
\* that mated the opponent answered a win
SimulationHitLimit ==
  /\ search.op = "simulate"
  /\ search.plies = MAX_SIMULATION_MOVES
  /\ search.result = 1

(***************************************************************************)
(* Pawn.get_possible_moves asked for the pawns of positions reached by     *)
(* GameState.make_move.                                                    *)
(***************************************************************************)
\* White pawns on e2 (not moved) and d4, black pawns on f4 and c5
PosPawns ==
  <<<<King, White, At(7, 1), TRUE>>, <<King, Black, At(7, 8), TRUE>>,
    <<Pawn, White, At(4, 2), FALSE>>, <<Pawn, White, At(3, 4), TRUE>>,
    <<Pawn, Black, At(5, 4), TRUE>>, <<Pawn, Black, At(2, 5), TRUE>>>>

\* A black pawn on d7 (not moved) with a white pawn on e5 beside its double
\* step, a white pawn on a3 that has a piece in front of it
PosPawnsBlack ==
  <<<<King, White, At(7, 1), TRUE>>, <<King, Black, At(7, 8), TRUE>>,
    <<Pawn, Black, At(3, 7), FALSE>>, <<Pawn, White, At(4, 5), TRUE>>,
    <<Pawn, White, At(0, 3), TRUE>>, <<Knight, Black, At(0, 4), TRUE>>>>

PawnPositions == {PosPawns, PosPawnsBlack, PosEnPassant, PosPromotion}

InitPawn ==
  /\ \E pl \in PawnPositions :
       /\ board = Setup(pl)
       /\ game \in {[GameInit EXCEPT !.current_player = c] : c \in Colors}
  /\ rule = RuleInit
  /\ ret = "None"
  /\ call = [NoCall EXCEPT !.pre = {}]
  /\ search = NoSearch

\* pawn.get_possible_moves(board) for the pawn on from: call.pre keeps the
\* moves it returned
PawnCallGetPossibleMoves(from) ==
  /\ IsOccupied(board, from)
  /\ KindOf(board, board.sq[from]) = Pawn
  /\ ret' = "Moves"
  /\ call' = [op |-> "get_possible_moves", why |-> "", from |-> from,
              to |-> NoSq, n |-> call.n, q |-> call.q,
              pre |-> PawnGetPossibleMoves(board, board.sq[from])]
  /\ UNCHANGED <<board, rule, game, search>>

NextPawn ==
  \/ \E from \in FromSquares(board) :
       \E to \in ToSquares(board, from) : GameMakeMove(from, to)
  \/ \E from \in Sq : PawnCallGetPossibleMoves(from)

SpecPawn == InitPawn /\ [][NextPawn]_vars

\* The en-passant target of the position: the square the pawn of the last
\* move passed over in its double step, for the other colour to capture on
HasEnPassantTarget(B, c) ==
  /\ HasLastMove(B)
  /\ KindOf(B, LastMove(B).piece) = Pawn
  /\ ColorOf(B, LastMove(B).piece) # c
  /\ Abs(Row(LastMove(B).from) - Row(LastMove(B).to)) = 2
EnPassantTargetSquare(B) ==
  S((Row(LastMove(B).from) + Row(LastMove(B).to)) \div 2, Col(LastMove(B).to))

\* The end squares of the pawn moves of chess for the pawn on from
PawnMovesOfChess(B, from) ==
  LET c == ColorOf(B, B.sq[from])
      d == IF c = White THEN -1 ELSE 1
      r == Row(from)
      f == Col(from)
      one == {s \in Sq : s = S(r + d, f) /\ IsValidPosition(r + d, f)
                         /\ IsEmpty(B, s)}
      two == {s \in Sq : /\ one # {}
                         /\ ~B.pc[B.sq[from]].moved
                         /\ r = (IF c = White THEN 6 ELSE 1)
                         /\ s = S(r + 2 * d, f)
                         /\ IsEmpty(B, s)}
      diagonal == {s \in Sq : /\ Row(s) = r + d
                              /\ Abs(Col(s) - f) = 1}
  IN one \cup two
     \cup {s \in diagonal : HasEnemyPiece(B, s, c)}
     \cup {s \in diagonal : HasEnPassantTarget(B, c)
                            /\ s = EnPassantTargetSquare(B)}

\* C28: the moves a pawn generates are exactly the single step onto an
\* empty square, the double step of a pawn that has not moved from its
\* starting rank over two empty squares, the diagonal step onto an enemy
\* piece and the diagonal step onto the en-passant target; no other move
\* is generated.
PawnMovesAreThePawnMovesOfChess ==
  call.op = "get_possible_moves" =>
    {mv.to : mv \in call.pre} = PawnMovesOfChess(board, call.from)

\* The same for the pawns of the side to move, whose last move is never
\* the last move of the board
PawnMovesOfSideToMoveAreThePawnMovesOfChess ==
  (/\ call.op = "get_possible_moves"
   /\ (HasLastMove(board) =>
         ColorOf(board, LastMove(board).piece)
           # ColorOf(board, board.sq[call.from])))
    => {mv.to : mv \in call.pre} = PawnMovesOfChess(board, call.from)

(***************************************************************************)
(* can_move_to of bishop, rook and queen with its loop run square by       *)
(* square.  A run answers "True" or "False", ends in "raise" when it asks  *)
(* for a square outside the board, and in "loop" when it is still walking  *)
(* after MaxWalk squares.                                                  *)
(***************************************************************************)
MaxWalk == 9

\* A slider on d4, a1 or h4 with its own king and the enemy king as the
\* pieces that may stand in its way
SliderSquares == {At(3, 4), At(0, 1), At(7, 4)}
BlockerSquares == {s \in Sq : Row(s) \in {0, 2, 4, 5, 7}
                              /\ Col(s) \in {0, 1, 3, 5, 7}}
SliderPositions ==
  {<<<<k, White, s, TRUE>>, <<King, White, f, TRUE>>,
     <<King, Black, e, TRUE>>>> :
     k \in {Bishop, Rook, Queen}, s \in SliderSquares,
     f \in BlockerSquares, e \in BlockerSquares}

\* The while loop from (row, col), the current square; the bishop's test
\* compares rows only
RECURSIVE WalkTo(_, _, _, _, _, _, _, _)
WalkTo(B, row, col, target, row_step, col_step, rows_only, fuel) ==
  IF /\ row = Row(target)
     /\ (rows_only \/ col = Col(target)) THEN "True"
  ELSE IF fuel = 0 THEN "loop"
  ELSE IF ~IsValidPosition(row, col) THEN "raise"
  ELSE IF IsOccupied(B, S(row, col)) THEN "False"
  ELSE WalkTo(B, row + row_step, col + col_step, target,
              row_step, col_step, rows_only, fuel - 1)

\* Bishop.can_move_to, run
BishopCanMoveToLoop(B, p, target) ==
  LET r == Row(B.pc[p].pos)
      c == Col(B.pc[p].pos)
      row_diff == Abs(Row(target) - r)
      col_diff == Abs(Col(target) - c)
      row_step == IF Row(target) > r THEN 1 ELSE -1
      col_step == IF Col(target) > c THEN 1 ELSE -1
  IN IF HasFriendlyPiece(B, target, B.pc[p].color) THEN "False"
     ELSE IF row_diff # col_diff THEN "False"
     ELSE WalkTo(B, r + row_step, c + col_step, target, row_step, col_step,
                 TRUE, MaxWalk)

\* Rook.can_move_to that does not look at the piece on the target
RookCanMoveToLoopAnyTarget(B, p, target) ==
  LET r == Row(B.pc[p].pos)
      c == Col(B.pc[p].pos)
      row_step == IF r = Row(target) THEN 0
                  ELSE IF Row(target) > r THEN 1 ELSE -1
      col_step == IF c = Col(target) THEN 0
                  ELSE IF Col(target) > c THEN 1 ELSE -1
  IN IF ~(r = Row(target) \/ c = Col(target)) THEN "False"
     ELSE WalkTo(B, r + row_step, c + col_step, target, row_step, col_step,
                 FALSE, MaxWalk)

\* Rook.can_move_to, run
RookCanMoveToLoop(B, p, target) ==
  LET r == Row(B.pc[p].pos)
      c == Col(B.pc[p].pos)
      row_step == IF r = Row(target) THEN 0
                  ELSE IF Row(target) > r THEN 1 ELSE -1
      col_step == IF c = Col(target) THEN 0
                  ELSE IF Col(target) > c THEN 1 ELSE -1
  IN IF ~(r = Row(target) \/ c = Col(target)) THEN "False"
     ELSE IF HasFriendlyPiece(B, target, B.pc[p].color) THEN "False"
     ELSE WalkTo(B, r + row_step, c + col_step, target, row_step, col_step,
                 FALSE, MaxWalk)

\* Queen.can_move_to, run
QueenCanMoveToLoop(B, p, target) ==
  LET r == Row(B.pc[p].pos)
      c == Col(B.pc[p].pos)
      row_diff == Row(target) - r
      col_diff == Col(target) - c
      row_step == IF row_diff = 0 THEN 0 ELSE row_diff \div Abs(row_diff)
      col_step == IF col_diff = 0 THEN 0 ELSE col_diff \div Abs(col_diff)
  IN IF HasFriendlyPiece(B, target, B.pc[p].color) THEN "False"
     ELSE IF ~(Abs(row_diff) = Abs(col_diff) \/ row_diff = 0
               \/ col_diff = 0) THEN "False"
     ELSE WalkTo(B, r + row_step, c + col_step, target, row_step, col_step,
                 FALSE, MaxWalk)

InitSlide ==
  /\ \E pl \in SliderPositions :
       /\ pl[1][3] # pl[2][3] /\ pl[1][3] # pl[3][3] /\ pl[2][3] # pl[3][3]
       /\ board = Setup(pl)
  /\ rule = RuleInit
  /\ game = GameInit
  /\ ret = "None"
  /\ call = NoCall
  /\ search = NoSearch

\* bishop.can_move_to(target, board)
BishopCallCanMoveTo(from, target) ==
  /\ call.q < MaxQueries
  /\ IsOccupied(board, from) /\ KindOf(board, board.sq[from]) = Bishop
  /\ ret' = BishopCanMoveToLoop(board, board.sq[from], target)
  /\ call' = [NoCall EXCEPT !.op = "can_move_to", !.from = from,
                            !.to = target, !.q = call.q + 1]
  /\ UNCHANGED <<board, rule, game, search>>

\* rook.can_move_to(target, board)
RookCallCanMoveTo(from, target) ==
  /\ call.q < MaxQueries
  /\ IsOccupied(board, from) /\ KindOf(board, board.sq[from]) = Rook
  /\ ret' = RookCanMoveToLoop(board, board.sq[from], target)
  /\ call' = [NoCall EXCEPT !.op = "can_move_to", !.from = from,
                            !.to = target, !.q = call.q + 1]
  /\ UNCHANGED <<board, rule, game, search>>

\* queen.can_move_to(target, board)
QueenCallCanMoveTo(from, target) ==
  /\ call.q < MaxQueries
  /\ IsOccupied(board, from) /\ KindOf(board, board.sq[from]) = Queen
  /\ ret' = QueenCanMoveToLoop(board, board.sq[from], target)
  /\ call' = [NoCall EXCEPT !.op = "can_move_to", !.from = from,
                            !.to = target, !.q = call.q + 1]
  /\ UNCHANGED <<board, rule, game, search>>

NextSlide ==
  \/ \E from \in SliderSquares, target \in Sq : BishopCallCanMoveTo(from, target)
  \/ \E from \in SliderSquares, target \in Sq : RookCallCanMoveTo(from, target)
  \/ \E from \in SliderSquares, target \in Sq : QueenCallCanMoveTo(from, target)

SpecSlide == InitSlide /\ [][NextSlide]_vars

\* The target lies on a line of the kind from the square
OnLineOf(kind, from, target) ==
  LET diagonal == Abs(Row(target) - Row(from)) = Abs(Col(target) - Col(from))
      straight == Row(target) = Row(from) \/ Col(target) = Col(from)
  IN IF kind = Bishop THEN diagonal
     ELSE IF kind = Rook THEN straight
     ELSE diagonal \/ straight

\* The squares strictly between two squares of one line
StrictlyBetween(a, b) ==
  {s \in Sq \ {a, b} :
     /\ (Row(s) - Row(a)) * (Col(b) - Col(a))
          = (Col(s) - Col(a)) * (Row(b) - Row(a))
     /\ (Row(a) <= Row(s) /\ Row(s) <= Row(b))
          \/ (Row(b) <= Row(s) /\ Row(s) <= Row(a))
     /\ (Col(a) <= Col(s) /\ Col(s) <= Col(b))
          \/ (Col(b) <= Col(s) /\ Col(s) <= Col(a))}

\* What the sliding move of chess allows
SlidingMoveOfChess(B, from, target) ==
  /\ OnLineOf(KindOf(B, B.sq[from]), from, target)
  /\ target # from
  /\ \A s \in StrictlyBetween(from, target) : IsEmpty(B, s)
  /\ IsEmpty(B, target) \/ HasEnemyPiece(B, target, ColorOf(B, B.sq[from]))

\* C29: can_move_to of a bishop, a rook or a queen answers, for every
\* target on the board, and answers True exactly when the target is on a
\* line of the piece, is not its own square, the squares strictly between
\* are empty and the target is empty or holds an enemy piece.
SlidingCanMoveToIsExact ==
  call.op = "can_move_to" =>
    /\ ret \in {"True", "False"}
    /\ (ret = "True") = SlidingMoveOfChess(board, call.from, call.to)

\* A slider was told it may capture the enemy king behind an empty square
\* of its line
SliderMayCaptureAlongLine ==
  /\ call.op = "can_move_to"
  /\ ret = "True"
  /\ HasEnemyPiece(board, call.to, White)
  /\ StrictlyBetween(call.from, call.to) # {}

\* The run answers what the test without the loop answers
SlidingLoopAgreesWithCanMoveTo ==
  call.op = "can_move_to" =>
    (ret = "True") = CanMoveTo(board, board.sq[call.from], call.to)

(***************************************************************************)
(* The execution of an en-passant capture by Board.make_move.              *)
(***************************************************************************)
\* m is an en-passant capture of the position: a pawn steps onto the empty
\* en-passant target, the enemy pawn that passed over it stands beside
EnPassantCapture(B, m) ==
  /\ m.piece # NoPiece
  /\ KindOf(B, m.piece) = Pawn
  /\ m.is_en_passant /\ ~m.is_castle
  /\ HasEnPassantTarget(B, ColorOf(B, m.piece))
  /\ m.to = EnPassantTargetSquare(B)
  /\ IsEmpty(B, m.to)
  /\ B.sq[EnPassantVictimSquare(m)] = LastMove(B).piece

\* C30: executing an en-passant capture puts the capturing pawn on the
\* target square and takes exactly one piece off the board, the enemy pawn
\* on the capturing pawn's start row in the column of the target; the move
\* keeps that pawn as its captured piece and no other square changes.
EnPassantTakesThePassedPawn ==
  [][(call'.op = "make_move" /\ EnPassantCapture(board, call'.move[1])) =>
       (\E m \in {call'.move[1]} :
          \E victim \in {board.sq[EnPassantVictimSquare(m)]} :
            /\ board'.sq[m.to] = m.piece
            /\ board'.pc[m.piece].pos = m.to
            /\ board'.sq[m.from] = NoPiece
            /\ board'.sq[EnPassantVictimSquare(m)] = NoPiece
            /\ board'.reg = board.reg \ {victim}
            /\ LastMove(board').cap = victim
            /\ (\A s \in Sq \ {m.from, m.to, EnPassantVictimSquare(m)} :
                  board'.sq[s] = board.sq[s]))]_vars

\* What the execution does: the passed pawn is taken off the board and kept
\* as the captured piece, and the capturing pawn stays where it was
EnPassantLeavesTheCapturingPawn ==
  [][(call'.op = "make_move" /\ EnPassantCapture(board, call'.move[1])) =>
       (\E m \in {call'.move[1]} :
          \E victim \in {board.sq[EnPassantVictimSquare(m)]} :
            /\ board'.sq[m.to] = NoPiece
            /\ board'.sq[m.from] = m.piece
            /\ board'.pc[m.piece].pos = m.from
            /\ board'.sq[EnPassantVictimSquare(m)] = NoPiece
            /\ board'.reg = board.reg \ {victim}
            /\ LastMove(board').cap = victim
            /\ (\A s \in Sq \ {EnPassantVictimSquare(m)} :
                  board'.sq[s] = board.sq[s]))]_vars

(***************************************************************************)
(* Castling carried out by Board.make_move (Move._execute_castle) and by   *)
(* King.move_to, on boards with a rook, with nothing and with a knight on  *)
(* the corner.                                                             *)
(***************************************************************************)
\* King on e1 and rook on a1 at home, nothing on h1
PosCastleNoRook ==
  <<<<King, White, At(4, 1), FALSE>>, <<Rook, White, At(0, 1), FALSE>>,
    <<King, Black, At(4, 8), TRUE>>, <<Pawn, Black, At(0, 7), FALSE>>>>

\* King on e1 at home, a knight on h1 and a rook on a1
PosCastleKnight ==
  <<<<King, White, At(4, 1), FALSE>>, <<Knight, White, At(7, 1), TRUE>>,
    <<Rook, White, At(0, 1), FALSE>>, <<King, Black, At(4, 8), TRUE>>>>

\* Black king and rooks at home
PosCastleBlack ==
  <<<<King, White, At(4, 1), TRUE>>, <<King, Black, At(4, 8), FALSE>>,
    <<Rook, Black, At(7, 8), FALSE>>, <<Rook, Black, At(0, 8), FALSE>>>>

CastlePositions == {PosCastle, PosCastleNoRook, PosCastleKnight, PosCastleBlack}

\* The squares a king that stands on the e-file is asked to go to
CastleEnds(B, p) ==
  {s \in Sq : /\ B.pc[p].kind = King /\ B.pc[p].pos # NoSq
              /\ Col(B.pc[p].pos) = 4
              /\ Row(s) = Row(B.pc[p].pos) /\ Col(s) \in {2, 6}}

\* The moves handed to Board.make_move: those the pieces generate and the
\* castling moves a caller builds
CastleRequests(B) ==
  UNION {GetPossibleMoves(B, p)
         \cup {Request(B, B.pc[p].pos, s) : s \in CastleEnds(B, p)} :
           p \in OnGrid(B)}

InitCastle ==
  /\ \E pl \in CastlePositions : board = Setup(pl)
  /\ rule = RuleInit
  /\ game = GameInit
  /\ ret = "None"
  /\ call = NoBoardCall
  /\ search = NoSearch

\* king.move_to(new_square, board); call.move keeps the step asked for
KingCallMoveTo(p, s) ==
  /\ call.n + call.e < MaxPlies
  /\ board.pc[p].kind = King
  /\ \E r \in {KingMoveTo(board, p, s)} :
       /\ board' = r.b
       /\ ret' = IF r.ok THEN "None" ELSE "Error"
  /\ call' = [call EXCEPT !.op = "move_to", !.pre = {},
                          !.move = <<Request(board, board.pc[p].pos, s)>>,
                          !.row = 0, !.col = 0, !.e = @ + 1]
  /\ UNCHANGED <<rule, game, search>>

NextCastle ==
  \/ \E m \in CastleRequests(board) : BoardCallMakeMove(m)
  \/ \E p \in OnGrid(board) :
       \E s \in KingEnds(board, p) \cup CastleEnds(board, p) :
         KingCallMoveTo(p, s)

SpecCastle == InitCastle /\ [][NextCastle]_vars

\* m asks a king on the e-file to castle
IsCastling(B, m) ==
  /\ m.piece # NoPiece
  /\ m.to \in CastleEnds(B, m.piece)
  /\ B.pc[m.piece].pos = m.from

CastleCorner(m) == S(Row(m.from), IF Col(m.to) > Col(m.from) THEN 7 ELSE 0)
CastleRookEnd(m) == S(Row(m.from), IF Col(m.to) > Col(m.from) THEN 5 ELSE 3)

\* A rook of the king's colour stands on the corner and the squares
\* between it and the king are empty
RookOnCorner(B, m) ==
  /\ IsOccupied(B, CastleCorner(m))
  /\ KindOf(B, B.sq[CastleCorner(m)]) = Rook
  /\ ColorOf(B, B.sq[CastleCorner(m)]) = ColorOf(B, m.piece)
  /\ \A s \in StrictlyBetween(m.from, CastleCorner(m)) : IsEmpty(B, s)

\* A rook stands on the corner of the castling
SomeRookOnCorner(B, m) ==
  /\ IsOccupied(B, CastleCorner(m))
  /\ KindOf(B, B.sq[CastleCorner(m)]) = Rook

\* The castling asked for by m turned B into B2
Castled(B, B2, m) ==
  /\ B2.sq[m.to] = m.piece /\ B2.pc[m.piece].pos = m.to
  /\ B2.sq[CastleRookEnd(m)] = B.sq[CastleCorner(m)]
  /\ B2.pc[B.sq[CastleCorner(m)]].pos = CastleRookEnd(m)
  /\ B2.sq[m.from] = NoPiece /\ B2.sq[CastleCorner(m)] = NoPiece
  /\ B2.pc[m.piece].moved /\ B2.pc[B.sq[CastleCorner(m)]].moved
  /\ B2.reg = B.reg
  /\ \A s \in Sq \ {m.from, m.to, CastleCorner(m), CastleRookEnd(m)} :
       B2.sq[s] = B.sq[s]

\* C31: a castling puts the king two columns from its start and the rook
\* of that row from column 7 on column 5 or from column 0 on column 3,
\* marks both as moved, captures nothing and changes no other square; with
\* no rook on the corner it fails and leaves the king on its start square.
CastlingMovesKingAndRook ==
  [][(call'.op \in {"make_move", "move_to"}
      /\ IsCastling(board, call'.move[1])) =>
       (\E m \in {call'.move[1]} :
          /\ RookOnCorner(board, m) => Castled(board, board', m)
          /\ ~SomeRookOnCorner(board, m) =>
               /\ board'.sq[m.from] = m.piece
               /\ board'.pc[m.piece].pos = m.from)]_vars

\* The same with "no piece" in the place of "no rook"
CastlingMovesKingAndCornerPiece ==
  [][(call'.op \in {"make_move", "move_to"}
      /\ IsCastling(board, call'.move[1])) =>
       (\E m \in {call'.move[1]} :
          /\ RookOnCorner(board, m) => Castled(board, board', m)
          /\ IsEmpty(board, CastleCorner(m)) =>
               /\ board'.sq[m.from] = m.piece
               /\ board'.pc[m.piece].pos = m.from)]_vars

(***************************************************************************)
(* The evaluation of ChessAI (src/ai/chess_ai.py) and the material count   *)
(* of AIStrategy (src/ai/strategies/strategies.py).  Scores of             *)
(* evaluate_position are kept in tenths, so that the weights 1.0, 0.3,     *)
(* 0.2 and 0.1 are the integers 10, 3, 2 and 1.                            *)
(***************************************************************************)
\* The most pieces put on the board beside the two kings
MaxEvalPieces == 3

\* ChessAI._piece_values
PieceValues(kind) ==
  IF kind = Pawn THEN 100
  ELSE IF kind = Knight THEN 320
  ELSE IF kind = Bishop THEN 330
  ELSE IF kind = Rook THEN 500
  ELSE IF kind = Queen THEN 900
  ELSE 20000

\* board.get_all_pieces(): the pieces of both colours the board keeps
GetAllPieces(B) == GetPieces(B, White) \cup GetPieces(B, Black)

\* f[1] + ... + f[n]
RECURSIVE SumTo(_, _)
SumTo(f, n) == IF n = 0 THEN 0 ELSE f[n] + SumTo(f, n - 1)

\* The loop `for piece in board.get_all_pieces()` that adds value[piece]
\* for a white piece and subtracts it for a black one
SignedSum(B, value) ==
  SumTo([p \in Ids |-> IF p \notin GetAllPieces(B) THEN 0
                       ELSE IF B.pc[p].color = White THEN value[p]
                       ELSE -value[p]], MaxPieces)

\* ChessAI._evaluate_material
ChessAIEvaluateMaterial(B) ==
  SignedSum(B, [p \in Ids |-> PieceValues(B.pc[p].kind)])

\* ChessAI._init_position_tables: the table of the pawn
PawnTable ==
  <<<<0, 0, 0, 0, 0, 0, 0, 0>>,
    <<50, 50, 50, 50, 50, 50, 50, 50>>,
    <<10, 10, 20, 30, 30, 20, 10, 10>>,
    <<5, 5, 10, 25, 25, 10, 5, 5>>,
    <<0, 0, 0, 20, 20, 0, 0, 0>>,
    <<5, -5, -10, 0, 0, -10, -5, 5>>,
    <<5, 10, 10, -20, -20, 10, 10, 5>>,
    <<0, 0, 0, 0, 0, 0, 0, 0>>>>

\* ChessAI._get_position_value
GetPositionValue(B, p) ==
  IF B.pc[p].kind # Pawn \/ B.pc[p].pos = NoSq THEN 0
  ELSE PawnTable[(IF B.pc[p].color = Black THEN 7 - Row(B.pc[p].pos)
                  ELSE Row(B.pc[p].pos)) + 1][Col(B.pc[p].pos) + 1]

\* ChessAI._count_isolated_pawns
CountIsolatedPawns(B, color) ==
  Cardinality({p \in GetPieces(B, color) :
     /\ B.pc[p].kind = Pawn
     /\ ~\E s \in Sq :
          /\ Abs(Col(s) - Col(B.pc[p].pos)) = 1
          /\ IsOccupied(B, s)
          /\ B.pc[B.sq[s]].kind = Pawn /\ B.pc[B.sq[s]].color = color})

\* ChessAI._count_doubled_pawns
CountDoubledPawns(B, color) ==
  SumTo([k \in 1..8 |->
           LET pawns_in_col ==
                 Cardinality({s \in Sq : /\ Col(s) = k - 1
                                         /\ IsOccupied(B, s)
                                         /\ B.pc[B.sq[s]].kind = Pawn
                                         /\ B.pc[B.sq[s]].color = color})
           IN IF pawns_in_col > 1 THEN pawns_in_col - 1 ELSE 0], 8)

\* ChessAI._evaluate_piece_positions, _evaluate_pawn_structure and
\* _evaluate_center_control with their weights, in tenths
PositionalTerms(B) ==
  LET position_score == SignedSum(B, [p \in Ids |-> GetPositionValue(B, p)])
      pawn_structure_score ==
        (-20 * CountIsolatedPawns(B, White) - 10 * CountDoubledPawns(B, White))
        - (-20 * CountIsolatedPawns(B, Black)
           - 10 * CountDoubledPawns(B, Black))
      center_squares == {S(3, 3), S(3, 4), S(4, 3), S(4, 4)}
      center_control_score ==
        10 * Cardinality({s \in center_squares : HasFriendlyPiece(B, s, White)})
        - 10 * Cardinality({s \in center_squares :
                             HasFriendlyPiece(B, s, Black)})
  IN position_score * 3 + pawn_structure_score * 2 + center_control_score

\* ChessAI.evaluate_position without the change of sign
ChessAIEvaluatePositionNoFlip(B, current_player) ==
  ChessAIEvaluateMaterial(B) * 10 + PositionalTerms(B)

\* ChessAI.evaluate_position, in tenths
ChessAIEvaluatePosition(B, current_player) ==
  LET evaluation == ChessAIEvaluateMaterial(B) * 10 + PositionalTerms(B)
  IN IF current_player = Black THEN -evaluation ELSE evaluation

\* AIStrategy._is_endgame
IsEndgame(B) ==
  SumTo([p \in Ids |-> IF p \in GetAllPieces(B)
                          /\ B.pc[p].kind \notin {King, Pawn}
                       THEN GetPieceValue(B.pc[p].kind) ELSE 0],
        MaxPieces) <= 1800

\* AIStrategy._get_piece_value(piece_type, is_endgame)
GetPieceValueIn(kind, is_endgame) ==
  IF kind = King /\ is_endgame THEN 19500 ELSE GetPieceValue(kind)

\* AIStrategy._evaluate_material
StrategyEvaluateMaterial(B) ==
  SignedSum(B, [p \in Ids |-> GetPieceValueIn(B.pc[p].kind, IsEndgame(B))])

\* The pieces put on the board beside the kings on e1 and e8
ExtraPieces ==
  <<<<Pawn, White, At(3, 4), TRUE>>, <<Pawn, White, At(3, 3), TRUE>>,
    <<Pawn, White, At(0, 2), FALSE>>, <<Pawn, Black, At(4, 5), TRUE>>,
    <<Pawn, Black, At(7, 7), FALSE>>, <<Pawn, Black, At(6, 6), TRUE>>,
    <<Knight, White, At(2, 3), TRUE>>, <<Bishop, Black, At(4, 4), TRUE>>,
    <<Rook, White, At(0, 1), FALSE>>, <<Rook, Black, At(0, 8), FALSE>>,
    <<Queen, White, At(3, 1), FALSE>>, <<Queen, Black, At(3, 8), FALSE>>>>

\* The chosen extra pieces in the order of ExtraPieces
PickSeq(sel) ==
  [i \in 1..Cardinality(sel) |->
     ExtraPieces[CHOOSE x \in sel : Cardinality({y \in sel : y < x}) = i - 1]]

EvalPosition(sel) ==
  <<<<King, White, At(4, 1), TRUE>>, <<King, Black, At(4, 8), TRUE>>>>
    \o PickSeq(sel)

NoEval == [op |-> "eval_asked", value |-> 0]

InitEval ==
  /\ \E sel \in SUBSET (1..Len(ExtraPieces)) :
       /\ Cardinality(sel) <= MaxEvalPieces
       /\ board = Setup(EvalPosition(sel))
  /\ game \in {[GameInit EXCEPT !.current_player = c] : c \in Colors}
  /\ rule = RuleInit
  /\ ret = "None"
  /\ call = NoCall
  /\ search = NoEval

\* ai._evaluate_material(board)
ChessAICallEvaluateMaterial ==
  /\ search.op = "eval_asked"
  /\ search' = [op |-> "chess_ai_material",
                value |-> ChessAIEvaluateMaterial(board)]
  /\ UNCHANGED <<board, rule, game, ret, call>>

\* ai.evaluate_position(game_state)
ChessAICallEvaluatePosition ==
  /\ search.op = "eval_asked"
  /\ search' = [op |-> "evaluate_position",
                value |-> ChessAIEvaluatePosition(board, game.current_player)]
  /\ UNCHANGED <<board, rule, game, ret, call>>

\* strategy._evaluate_material(game_state)
StrategyCallEvaluateMaterial ==
  /\ search.op = "eval_asked"
  /\ search' = [op |-> "strategy_material",
                value |-> StrategyEvaluateMaterial(board)]
  /\ UNCHANGED <<board, rule, game, ret, call>>

NextEval ==
  \/ ChessAICallEvaluateMaterial
  \/ ChessAICallEvaluatePosition
  \/ StrategyCallEvaluateMaterial

SpecEval == InitEval /\ [][NextEval]_vars

\* The pieces of a kind and colour standing on the board
CountOnBoard(B, kind, color) ==
  Cardinality({s \in Sq : /\ IsOccupied(B, s)
                          /\ B.pc[B.sq[s]].kind = kind
                          /\ B.pc[B.sq[s]].color = color})

\* White's material minus Black's: pawn 100, knight 320, bishop 330,
\* rook 500, queen 900
MaterialOfChess(B) ==
  100 * (CountOnBoard(B, Pawn, White) - CountOnBoard(B, Pawn, Black))
  + 320 * (CountOnBoard(B, Knight, White) - CountOnBoard(B, Knight, Black))
  + 330 * (CountOnBoard(B, Bishop, White) - CountOnBoard(B, Bishop, Black))
  + 500 * (CountOnBoard(B, Rook, White) - CountOnBoard(B, Rook, Black))
  + 900 * (CountOnBoard(B, Queen, White) - CountOnBoard(B, Queen, Black))

HistoriesAndMoveCountAgree ==
  /\ Len(rule.move_history) = Len(rule.position_history)
  /\ Len(rule.position_history) = rule.move_count

(***************************************************************************)
(* The registries of the board.                                            *)
(***************************************************************************)
\* The king of a colour standing on the board, NoPiece if there is none
KingOnBoard(B, c) ==
  IF \E p \in OnGrid(B) : B.pc[p].kind = King /\ B.pc[p].color = c
  THEN CHOOSE p \in OnGrid(B) : B.pc[p].kind = King /\ B.pc[p].color = c
  ELSE NoPiece

\* C34: the registry of the board holds exactly the pieces standing on its
\* squares and the king registry gives each colour its king on the board,
\* after captures, en-passant captures, castling and promotions too, so
\* that a promoted piece is among the pieces check detection goes through.
RegistryIsThePiecesOnBoard ==
  /\ board.reg = OnGrid(board)
  /\ \A c \in Colors : board.kings[c] = KingOnBoard(board, c)

\* The same while moves alone were made, none a promotion and none taken back
RegistryIsThePiecesOnBoardButPromotion ==
  (\A i \in 1..Len(board.mh) : ~board.mh[i].is_promotion) /\ call.e = 0 /\ call.u = 0
    => RegistryIsThePiecesOnBoard

(***************************************************************************)
(* A game that is over.                                                    *)
(***************************************************************************)
\* King and rook a move from mating the king on h8
PosMateInOne ==
  <<<<King, White, At(6, 6), TRUE>>, <<Rook, White, At(0, 1), TRUE>>,
    <<King, Black, At(7, 8), TRUE>>>>

\* King and queen a move from stalemating the king on h8
PosStalemateInOne ==
  <<<<King, White, At(5, 7), TRUE>>, <<Queen, White, At(6, 5), TRUE>>,
    <<King, Black, At(7, 8), TRUE>>>>

EndingPositions == {PosMateInOne, PosStalemateInOne, PosMaterial}

\* A GameState on a position a move from its end
InitOver ==
  /\ \E pl \in EndingPositions : board = Setup(pl)
  /\ rule = RuleInit
  /\ game = GameInit
  /\ ret = "None"
  /\ call = [NoCall EXCEPT !.pre = {}]
  /\ search = NoSearch

SpecOver == InitOver /\ [][NextState]_vars

\* The status says the game has ended on the board
EndedStatus == {Checkmate, Stalemate, Draw}

\* The side to move of the GameState has a legal move
SideToMoveHasLegalMove ==
  \E p \in GetPieces(board, game.current_player) :
    \E mv \in GetPossibleMoves(board, p) : IsLegalMove(game, board, mv)

RuleStatusStaysActive == rule.state = Active

\* A request was turned down after a mate, and after a stalemate
MatedGameTurnedMoveDown ==
  /\ game.status = Checkmate
  /\ call.op = "make_move" /\ call.why = "rejected" /\ ret = "False"

StalematedGameTurnedMoveDown ==
  /\ game.status = Stalemate
  /\ call.op = "make_move" /\ call.why = "rejected" /\ ret = "False"

(***************************************************************************)
(* The statistics of the search tree of MCTSStrategy.                      *)
(***************************************************************************)
\* The visits of the children of the node at q, added up
ChildVisits(nodes, q) ==
  SumTo([i \in 1..Len(nodes[q].children) |->
           nodes[Append(q, nodes[q].children[i])].visits],
        Len(nodes[q].children))

\* The position is terminal: the game is over or there is no legal move
Terminal(position) == position.over \/ position.kids = <<>>

\* C36: after every iteration of MCTSStrategy the visits of the root are
\* the number of iterations made and, the root not being terminal, the sum
\* of the visits of its children; the visits of every other node that is
\* not terminal are 1 plus the sum of the visits of its children; the wins
\* of every node lie between 0 and its visits (wins are kept in halves).
VisitCountsAddUp ==
  search.op \in {"searching", "find_best_move"} =>
    /\ search.nodes[<<>>].visits = search.iters
    /\ ~Terminal(search.tree) =>
         search.nodes[<<>>].visits = ChildVisits(search.nodes, <<>>)
    /\ \A q \in DOMAIN search.nodes :
         /\ (q # <<>> /\ ~Terminal(PositionAt(search.tree, q))) =>
              search.nodes[q].visits = 1 + ChildVisits(search.nodes, q)
         /\ 0 <= search.nodes[q].wins
         /\ search.nodes[q].wins <= 2 * search.nodes[q].visits

\* The same with terminal read as is_game_over alone
VisitCountsAddUpUnlessOver ==
  search.op \in {"searching", "find_best_move"} =>
    /\ ~search.tree.over =>
         search.nodes[<<>>].visits = ChildVisits(search.nodes, <<>>)
    /\ \A q \in DOMAIN search.nodes :
         (q # <<>> /\ ~PositionAt(search.tree, q).over) =>
           search.nodes[q].visits = 1 + ChildVisits(search.nodes, q)

\* The same of the tree ChessAI._mcts builds
BotVisitCountsAddUp ==
  search.op = "bot_searching" =>
    /\ search.nodes[<<>>].visits = search.iters
    /\ ~Terminal(search.tree) =>
         search.nodes[<<>>].visits = ChildVisits(search.nodes, <<>>)
    /\ \A q \in DOMAIN search.nodes :
         /\ (q # <<>> /\ ~Terminal(PositionAt(search.tree, q))) =>
              search.nodes[q].visits = 1 + ChildVisits(search.nodes, q)
         /\ 0 <= search.nodes[q].wins
         /\ search.nodes[q].wins <= 2 * search.nodes[q].visits

\* The search ran all its iterations through a child of the root that has
\* two children of its own, each of them visited
GrandchildrenVisited ==
  /\ search.op = "searching"
  /\ search.iters = MaxIterations
  /\ \E q \in DOMAIN search.nodes :
       /\ Len(q) = 1
       /\ Len(search.nodes[q].children) = 2
       /\ \A i \in 1..2 :
            search.nodes[Append(q, search.nodes[q].children[i])].visits >= 1
       /\ search.nodes[q].visits >= 3

(***************************************************************************)
(* Whose wins a node counts.                                               *)
(***************************************************************************)
\* How the playouts of _simulate from a position can end: with the side to
\* move at the start mated, with the other side mated, or without a mate
RECURSIVE PlayoutEnds(_, _)
PlayoutEnds(position, turned) ==
  IF position.over \/ position.kids = <<>>
  THEN {IF position.chk /\ position.kids = <<>>
        THEN (IF turned THEN "other_mated" ELSE "starter_mated")
        ELSE "no_mate"}
  ELSE UNION {PlayoutEnds(position.kids[i], ~turned) :
                i \in 1..Len(position.kids)}

\* The last iteration of MCTSStrategy simulated from a child from which
\* every playout ends with the side to move at the child mated, that is
\* with a mate given by the player who moved into the child
MoverMatesFrom(s) ==
  /\ s.op = "searching"
  /\ s.last.path # <<>>
  /\ PlayoutEnds(PositionAt(s.tree, s.last.path), FALSE) = {"starter_mated"}

\* C37: the wins of a child count the simulations won by the player who
\* made the move into it: a simulation from a child that ends with that
\* player giving checkmate adds 1 to the wins of the child (2 halves).
ChildWinsCountTheMoverWins ==
  [][search'.iters > search.iters /\ MoverMatesFrom(search')
       => search'.nodes[search'.last.path].wins
            = Before(search.nodes, search'.last.path).wins + 2]_vars

\* What the code does: such a simulation adds nothing to the wins of the
\* child and 1 to the wins of its parent
ChildWinsCountTheOpponentWins ==
  [][search'.iters > search.iters /\ MoverMatesFrom(search')
       => LET p == search'.last.path
              parent == SubSeq(p, 1, Len(p) - 1)
          IN /\ search'.nodes[p].wins = Before(search.nodes, p).wins
             /\ search'.nodes[parent].wins = search.nodes[parent].wins + 2]_vars

\* An iteration simulated from a child in which the mover had given mate
MoverMated == search.iters > 0 /\ MoverMatesFrom(search)

(***************************************************************************)
(* The pieces of a game: on the board or captured.                         *)
(***************************************************************************)
\* The pieces on the board and in the two lists of captured pieces, counted
PiecesInGame(G, B) ==
  Cardinality(OnGrid(B)) + Len(G.captured[White]) + Len(G.captured[Black])

\* C38: through GameState.make_move the pieces on the board and the pieces
\* in the two captured lists together stay as many as the game began with,
\* every capture being listed once, under the side that made it; captures
\* en passant and promotions that capture included.
CapturedPiecesAreAccounted ==
  [][/\ PiecesInGame(game', board') = PiecesInGame(game, board)
     /\ game'.captured[Opposite(game.current_player)]
          = game.captured[Opposite(game.current_player)]
     /\ \/ game'.captured[game.current_player]
             = game.captured[game.current_player]
        \/ \E p \in OnGrid(board) \ OnGrid(board') :
             game'.captured[game.current_player]
               = Append(game.captured[game.current_player], p)]_vars

\* The same of the moves that are neither en passant nor a promotion
PlainCapturesAreAccounted ==
  [][(call'.op = "make_move" /\ ret' = "True"
        /\ ~game'.move_history[Len(game'.move_history)].is_en_passant
        /\ ~game'.move_history[Len(game'.move_history)].is_promotion)
       => /\ PiecesInGame(game', board') = PiecesInGame(game, board)
          /\ game'.captured[Opposite(game.current_player)]
               = game.captured[Opposite(game.current_player)]]_vars

\* A capture was made and listed
CaptureListed ==
  /\ call.op = "make_move" /\ ret = "True"
  /\ \E c \in Colors : Len(game.captured[c]) = 1
  /\ PiecesInGame(game, board) = Cardinality({p \in Ids : board.pc[p].kind # NoKind})

(***************************************************************************)
(* Where the kings stand and where they may go.                            *)
(***************************************************************************)
\* A piece of the other colour attacks the square, as chess has it
AttackedByEnemy(B, color, s) ==
  \E a \in Sq : /\ IsOccupied(B, a)
                /\ B.pc[B.sq[a]].color # color
                /\ Attacks(B, a, s)

\* The kings on the board stand apart
KingsApart(B) ==
  \A a, b \in Sq :
    (/\ IsOccupied(B, a) /\ IsOccupied(B, b) /\ a # b
     /\ B.pc[B.sq[a]].kind = King /\ B.pc[B.sq[b]].kind = King)
      => Max(Abs(Row(a) - Row(b)), Abs(Col(a) - Col(b))) > 1

\* C39: in every position reached by moves the engine generates the two
\* kings do not stand on adjacent squares, and no move of a king, castling
\* included, is generated onto a square an enemy piece attacks.
KingsApartAndKingMovesSafe ==
  /\ KingsApart(board)
  /\ \A p \in OnGrid(board) :
       board.pc[p].kind = King =>
         \A m \in KingGetLegalMoves(board, p) :
           ~AttackedByEnemy(board, board.pc[p].color, m.to)

\* The part of it that holds: the kings stand apart, and no move of a king
\* ends on a square that is the end of a move an enemy piece generates or
\* beside the enemy king
KingsApartAndKingMovesOffGeneratedEnds ==
  /\ KingsApart(board)
  /\ \A p \in OnGrid(board) :
       board.pc[p].kind = King =>
         \A m \in KingGetLegalMoves(board, p) :
           IsSquareSafe(board, board.pc[p].color, Row(m.to), Col(m.to))

====
